---------------------------- MODULE Spec2Model ----------------------------
(***************************************************************************)
(* A model of wjhurley/netsuite-schema-scraper (src/src/index.ts).         *)
(*                                                                         *)
(* Text is modelled as a sequence of lexical atoms (a field name, a type   *)
(* name, a separator such as the tab "\t" or the range dots "..", or one   *)
(* literal chunk of a template); concatenation is \o, the empty string is  *)
(* << >>, and String.split is Split on a separator atom.                   *)
(***************************************************************************)
EXTENDS Integers, Sequences, FiniteSets, TLC

(***************************************************************************)
(* Bounds of the model.                                                    *)
(***************************************************************************)
\* number of entries of main's `versions` list that the model runs over
NumVersions == 2
\* namespaces the schema browser lists per version
NumNamespaces == 1
\* leaf links per (namespace, tab)
LeavesPerTab == 2
\* page-local failures (caught by the per-page try/catch) in one run
MaxPageFailures == 1
\* command-line flags set in one invocation
MaxFlags == 2
\* rows of one enum page given to createEnum
MaxEnumRows == 3
\* lines of one file given to replaceFullImports
MaxContentLines == 2
\* entries of one folder listing given to parseFolderContents
MaxEntries == 4

(***************************************************************************)
(* JavaScript values and string helpers.                                   *)
(***************************************************************************)
\* the JavaScript value `undefined` (a reserved atom no text contains)
UNDEFINED == <<"%undefined%">>

\* `${v}` in a template literal: undefined is rendered as the text undefined
Interp(v) == IF v = UNDEFINED THEN <<"undefined">> ELSE v

\* String.prototype.split(sep) for a one-atom separator: pieces in order,
\* one piece more than there are separators, '' gives ['']
SplitAt(s, seps) ==
    [k \in 1..(Cardinality(seps) + 1) |->
        SubSeq(s,
               IF k = 1 THEN 1
               ELSE (CHOOSE i \in seps : Cardinality({j \in seps : j < i}) = k - 2) + 1,
               IF k = Cardinality(seps) + 1 THEN Len(s)
               ELSE (CHOOSE i \in seps : Cardinality({j \in seps : j < i}) = k - 1) - 1)]

Split(s, sep) == SplitAt(s, {i \in DOMAIN s : s[i] = sep})

\* Array.prototype.join(sep)
RECURSIVE Join(_, _)
Join(parts, sep) ==
    IF parts = << >> THEN << >>
    ELSE IF Len(parts) = 1 THEN parts[1]
    ELSE parts[1] \o sep \o Join(Tail(parts), sep)

\* String.prototype.toLowerCase on the atoms that occur as column headers
LowerAtom(a) ==
    CASE a = "Name" -> "name"
      [] a = "Type" -> "type"
      [] a = "Cardinality" -> "cardinality"
      [] a = "Label" -> "label"
      [] a = "Required" -> "required"
      [] a = "Help" -> "help"
      [] OTHER -> a

ToLowerCase(s) == [i \in DOMAIN s |-> LowerAtom(s[i])]

\* array element i (0-based), undefined outside the array
At(arr, i) == IF i + 1 \in DOMAIN arr THEN arr[i + 1] ELSE UNDEFINED

\* property read obj[key]; a key that is undefined is the key 'undefined'
HasOwnProperty(obj, key) == Interp(key) \in DOMAIN obj

Prop(obj, key) == IF HasOwnProperty(obj, key) THEN obj[Interp(key)] ELSE UNDEFINED

\* destructuring default: `x = dflt` applies when the property is undefined
OrDefault(v, dflt) == IF v = UNDEFINED THEN dflt ELSE v

(***************************************************************************)
(* createFileRow                                                           *)
(***************************************************************************)
netSuiteTypeMapping ==
    (<<"dateTime">> :> <<"Date">>) @@ (<<"double">> :> <<"number">>)
    @@ (<<"int">> :> <<"number">>) @@ (<<"long">> :> <<"number">>)

\* the loop `rowObject[columnNames[Number(index)]] = value`: a later value
\* of the same key overwrites an earlier one
RowObject(columnNames, columnValues) ==
    LET key(i) == Interp(At(columnNames, i - 1))
        keys == {key(i) : i \in DOMAIN columnValues}
        last(k) == CHOOSE i \in DOMAIN columnValues :
                      /\ key(i) = k
                      /\ \A j \in DOMAIN columnValues : key(j) = k => j <= i
    IN [k \in keys |-> columnValues[last(k)]]

\* a variant that needs both the flag and the minimum
PropRequiredBoth(required, minimum) ==
    IF required = <<"T">> /\ minimum = <<"1">> THEN << >> ELSE <<"?">>

PropRequired(required, minimum) ==
    IF required = <<"T">> \/ minimum = <<"1">> THEN << >> ELSE <<"?">>

\* a variant that marks every field with a maximum as an array
PropArrayAnyMaximum(maximum) ==
    IF maximum # UNDEFINED /\ maximum # << >> THEN <<"[]">> ELSE << >>

PropArray(maximum) ==
    IF maximum # UNDEFINED /\ maximum # << >> /\ maximum = <<"unbounded">>
    THEN <<"[]">> ELSE << >>

\* a variant whose mapping has no entry for `long`
PropTypeWithoutLong(type) ==
    IF type \in {<<"dateTime">>, <<"double">>, <<"int">>}
    THEN netSuiteTypeMapping[type] ELSE type

PropType(type) ==
    IF HasOwnProperty(netSuiteTypeMapping, type)
    THEN netSuiteTypeMapping[type] ELSE type

\* a variant that drops the help text
PropCommentNone(help) == << >>

PropComment(help) ==
    IF help # UNDEFINED /\ help # << >> THEN <<" // ">> \o help ELSE << >>

\* the record FileRow: the property line and the import line (or null)
NULL == <<"%null%">>

\* createFileRow once rowObject is built: the destructuring with its
\* defaults, the cardinality split, and the two template strings
FileRowOf(filePaths, rowObject) ==
    LET cardinality == OrDefault(Prop(rowObject, <<"cardinality">>), << >>)
        help == Prop(rowObject, <<"help">>)
        propName == Prop(rowObject, <<"name">>)
        required == OrDefault(Prop(rowObject, <<"required">>), << >>)
        type == Prop(rowObject, <<"type">>)
        minimum == At(Split(cardinality, ".."), 0)
        maximum == At(Split(cardinality, ".."), 1)
        propType == PropType(type)
        propArray == PropArray(maximum)
        propRequired == PropRequired(required, minimum)
        propComment == PropComment(help)
    IN [fileRow |-> <<"\n", "    ">> \o Interp(propName) \o propRequired
                    \o <<": ">> \o Interp(propType) \o propArray \o <<";">>
                    \o propComment,
        importLine |-> IF HasOwnProperty(filePaths, propType)
                       THEN <<"import type { ">> \o Interp(propType)
                            \o <<" } from '">> \o filePaths[Interp(propType)]
                            \o <<"';", "\n">>
                       ELSE NULL]

CreateFileRow(filePaths, columnNames, row) ==
    FileRowOf(filePaths, RowObject(columnNames, Split(row, "\t")))

(***************************************************************************)
(* capitalizeWord and createEnum                                           *)
(***************************************************************************)
\* a thrown error, as the value of an operation that throws
THROWN == <<"%thrown%">>

\* String.prototype.toUpperCase on one atom
UpperAtom(a) ==
    CASE a = "enum" -> "Enum"
      [] a = "other" -> "Other"
      [] a = "record" -> "Record"
      [] a = "search" -> "Search"
      [] a = "a" -> "A"
      [] a = "b" -> "B"
      [] a = "i" -> "I"
      [] a = "n" -> "N"
      [] OTHER -> a

\* word[0].toUpperCase() + word.slice(1); word[0] of '' is undefined and
\* reading toUpperCase of it throws a TypeError
CapitalizeWord(word) ==
    IF word = << >> THEN THROWN
    ELSE <<UpperAtom(Head(word))>> \o Tail(word)

\* row.replace(/[_-]/, ''): without the g flag only the first match goes
StripFirstSeparator(row) ==
    IF \A k \in DOMAIN row : row[k] \notin {"_", "-"} THEN row
    ELSE LET first == CHOOSE k \in DOMAIN row :
                          /\ row[k] \in {"_", "-"}
                          /\ \A j \in 1..(k - 1) : row[j] \notin {"_", "-"}
         IN SubSeq(row, 1, first - 1) \o SubSeq(row, first + 1, Len(row))

\* row.replace(/[_-]/g, '')
StripSeparators(row) == SelectSeq(row, LAMBDA a : a \notin {"_", "-"})

RECURSIVE EnumMembers(_)
EnumMembers(rows) ==
    IF rows = << >> THEN << >>
    ELSE LET capitalizedKey == CapitalizeWord(StripSeparators(Head(rows)))
             rest == EnumMembers(Tail(rows))
         IN IF capitalizedKey = THROWN \/ rest = THROWN THEN THROWN
            ELSE <<"\n", "    ">> \o capitalizedKey \o <<" = '">> \o Head(rows)
                 \o <<"',">> \o rest

\* createEnum without rows.shift()
CreateEnumKeepsFirst(leftDrawerLink, fileName, rows) ==
    LET members == EnumMembers(rows)
    IN IF members = THROWN THEN THROWN
       ELSE <<"// ">> \o leftDrawerLink \o <<"\n", "export enum ">> \o fileName
            \o <<" {">> \o members \o <<"\n", "}", "\n">>

\* rows.shift() drops the first row (a no-op on an empty array)
CreateEnum(leftDrawerLink, fileName, rows) ==
    LET members == EnumMembers(IF rows = << >> THEN << >> ELSE Tail(rows))
    IN IF members = THROWN THEN THROWN
       ELSE <<"// ">> \o leftDrawerLink \o <<"\n", "export enum ">> \o fileName
            \o <<" {">> \o members \o <<"\n", "}", "\n">>

(***************************************************************************)
(* sortImports and createInterface                                         *)
(***************************************************************************)
\* the atoms of generated paths in the order String.localeCompare gives them
AtomOrder ==
    <<"_", "-", ".ts", "/", "1", "2", "2014_1", "2014_2", "2015_1", "3", "4",
      "accounting", "core", "customization", "Enum", "enums", "FilePath", "index",
      "lists", "netsuite-schema-browser-types", "Other", "platform", "Record",
      "Search", "setup", "src">>

AtomRank(a) ==
    IF \E i \in DOMAIN AtomOrder : AtomOrder[i] = a
    THEN CHOOSE i \in DOMAIN AtomOrder : AtomOrder[i] = a
    ELSE 0

\* a.localeCompare(b) < 0, atom by atom; a proper prefix sorts first
RECURSIVE LocaleLess(_, _)
LocaleLess(a, b) ==
    IF b = << >> THEN FALSE
    ELSE IF a = << >> THEN TRUE
    ELSE IF AtomRank(Head(a)) # AtomRank(Head(b))
         THEN AtomRank(Head(a)) < AtomRank(Head(b))
    ELSE LocaleLess(Tail(a), Tail(b))

\* String.prototype.indexOf for one atom (0-based, -1 when absent)
IndexOf(s, a) ==
    IF \E i \in DOMAIN s : s[i] = a
    THEN (CHOOSE i \in DOMAIN s : s[i] = a /\ \A j \in 1..(i - 1) : s[j] # a) - 1
    ELSE -1

\* String.prototype.lastIndexOf for one atom
LastIndexOf(s, a) ==
    IF \E i \in DOMAIN s : s[i] = a
    THEN (CHOOSE i \in DOMAIN s : s[i] = a /\ \A j \in (i + 1)..Len(s) : s[j] # a) - 1
    ELSE -1

\* slice(from) and slice(from, to) with non-negative 0-based positions,
\* clamped to the sequence as JavaScript clamps them
Slice(s, from, to) ==
    LET lo == IF from > Len(s) THEN Len(s) ELSE from
        hi == IF to > Len(s) THEN Len(s) ELSE to
    IN IF hi <= lo THEN << >> ELSE SubSeq(s, lo + 1, hi)

\* slice(from) where from may be -1 (indexOf found nothing): the last atom
SliceFrom(s, from) ==
    IF from >= 0 THEN Slice(s, from, Len(s))
    ELSE Slice(s, IF Len(s) + from < 0 THEN 0 ELSE Len(s) + from, Len(s))

\* String.prototype.indexOf('src/'): the first "src" that a "/" follows
IndexOfSrc(s) ==
    LET hits == {i \in DOMAIN s : s[i] = "src" /\ i < Len(s) /\ s[i + 1] = "/"}
    IN IF hits = {} THEN -1
       ELSE (CHOOSE i \in hits : \A j \in hits : i <= j) - 1

\* a variant that compares the whole import lines, type name first
SortImportsLessByLine(importA, importB) == LocaleLess(importA, importB)

\* sortImports(importA, importB) < 0
SortImportsLess(importA, importB) ==
    LocaleLess(SliceFrom(importA, IndexOfSrc(importA)),
               SliceFrom(importB, IndexOfSrc(importB)))

\* Array.from(importsSet).sort(sortImports): Array.prototype.sort is stable,
\* so each line goes after the lines that do not sort after it
RECURSIVE InsertImport(_, _)
InsertImport(sorted, x) ==
    IF sorted = << >> THEN <<x>>
    ELSE IF SortImportsLess(x, Head(sorted)) THEN <<x>> \o sorted
    ELSE <<Head(sorted)>> \o InsertImport(Tail(sorted), x)

RECURSIVE SortImports(_)
SortImports(s) ==
    IF s = << >> THEN << >>
    ELSE InsertImport(SortImports(SubSeq(s, 1, Len(s) - 1)), s[Len(s)])

SectionNames == <<<<"Attributes">>, <<"Fields">>, <<"Related Record(s)">>,
                  <<"Related Searches">>>>

\* rows.findIndex(row => row === section)
FindIndex(rows, section) ==
    IF \E i \in DOMAIN rows : rows[i] = section
    THEN (CHOOSE i \in DOMAIN rows :
            rows[i] = section /\ \A j \in 1..(i - 1) : rows[j] # section) - 1
    ELSE -1

\* .sort(([ keyA, valueA ], [ keyB, valueB ]) => valueA - valueB)
RECURSIVE InsertSection(_, _)
InsertSection(sorted, x) ==
    IF sorted = << >> THEN <<x>>
    ELSE IF x[2] < Head(sorted)[2] THEN <<x>> \o sorted
    ELSE <<Head(sorted)>> \o InsertSection(Tail(sorted), x)

RECURSIVE SortSections(_)
SortSections(s) ==
    IF s = << >> THEN << >>
    ELSE InsertSection(SortSections(SubSeq(s, 1, Len(s) - 1)), s[Len(s)])

\* the [section, index] pairs of the sections present, ordered by index
PageSections(rows) ==
    LET all == [k \in 1..4 |-> <<SectionNames[k], FindIndex(rows, SectionNames[k])>>]
        present == SelectSeq(all, LAMBDA p : p[2] # -1)
    IN SortSections(present)

\* a variant that takes the rows of a section last to first
RECURSIVE SectionFileRowsReversed(_, _, _)
SectionFileRowsReversed(filePaths, columnNames, sectionRows) ==
    IF sectionRows = << >> THEN << >>
    ELSE SectionFileRowsReversed(filePaths, columnNames, Tail(sectionRows))
         \o <<CreateFileRow(filePaths, columnNames, Head(sectionRows))>>

\* the body of the loop over pageSections for one section: what it adds to
\* attributesProp, attributesInterface, interfaceProps and importsSet
RECURSIVE SectionFileRows(_, _, _)
SectionFileRows(filePaths, columnNames, sectionRows) ==
    IF sectionRows = << >> THEN << >>
    ELSE <<CreateFileRow(filePaths, columnNames, Head(sectionRows))>>
         \o SectionFileRows(filePaths, columnNames, Tail(sectionRows))

\* a variant in which every section runs to the end of the page
SectionSliceToEnd(rows, pageSections, k) ==
    Slice(rows, pageSections[k][2] + 1, Len(rows))

\* the rows of section number k of pageSections, its header row included
SectionSlice(rows, pageSections, k) ==
    LET startIndex == pageSections[k][2] + 1
        endIndex == IF k # Len(pageSections) THEN pageSections[k + 1][2]
                    ELSE Len(rows)
    IN Slice(rows, startIndex, endIndex)

\* sectionRows.shift() and the lower-cased column names (`?? []` when the
\* section has no rows at all)
SectionColumnNames(sectionSlice) ==
    IF sectionSlice = << >> THEN << >>
    ELSE LET cells == Split(Head(sectionSlice), "\t")
         IN [i \in DOMAIN cells |-> ToLowerCase(cells[i])]

SectionDataRows(sectionSlice) ==
    IF sectionSlice = << >> THEN << >> ELSE Tail(sectionSlice)

\* the FileRow records of the section named `section` ('Attributes' or
\* 'Fields'), << >> when the page has no such section
SectionRowsOf(filePaths, rows, pageSections, section) ==
    IF \A k \in DOMAIN pageSections : pageSections[k][1] # section THEN << >>
    ELSE LET k == CHOOSE k \in DOMAIN pageSections : pageSections[k][1] = section
         IN SectionFileRows(filePaths,
                            SectionColumnNames(SectionSlice(rows, pageSections, k)),
                            SectionDataRows(SectionSlice(rows, pageSections, k)))

RenderedRows(filePaths, rows, section) ==
    SectionRowsOf(filePaths, rows, PageSections(rows), section)

RECURSIVE ConcatFileRows(_)
ConcatFileRows(fileRows) ==
    IF fileRows = << >> THEN << >>
    ELSE Head(fileRows).fileRow \o ConcatFileRows(Tail(fileRows))

\* importsSet.add(importLine) for each non-null import line: a Set keeps the
\* first insertion of each value, in insertion order
RECURSIVE AddImports(_, _)
AddImports(importsSet, fileRows) ==
    IF fileRows = << >> THEN importsSet
    ELSE LET line == Head(fileRows).importLine
         IN AddImports(IF line = NULL \/ \E i \in DOMAIN importsSet : importsSet[i] = line
                       THEN importsSet ELSE Append(importsSet, line),
                       Tail(fileRows))

RECURSIVE Flatten(_)
Flatten(ss) == IF ss = << >> THEN << >> ELSE Head(ss) \o Flatten(Tail(ss))

HasSection(rows, section) == \E i \in DOMAIN rows : rows[i] = section

\* the sections are processed in page order, so the imports of the section
\* that comes first in the page are inserted first
ImportsSet(rows, attrs, flds) ==
    IF FindIndex(rows, <<"Attributes">>) < FindIndex(rows, <<"Fields">>)
    THEN AddImports(AddImports(<< >>, attrs), flds)
    ELSE AddImports(AddImports(<< >>, flds), attrs)

\* `imports`: the sorted import lines and one empty line, or nothing
ImportsText(importsSet) ==
    IF Len(importsSet) > 0 THEN Flatten(SortImports(importsSet)) \o <<"\n">>
    ELSE << >>

\* a variant that puts the `attributes` field below the other fields
InterfaceTextAttributesLast(leftDrawerLink, fileName, rows, attrs, flds) ==
    LET attributesInterfaceName == fileName \o <<"Attributes">>
        hasAttributes == HasSection(rows, <<"Attributes">>)
        attributesProp ==
            IF hasAttributes
            THEN <<"\n", "    ", "attributes", ": ">> \o attributesInterfaceName
                 \o <<";", "\n">>
            ELSE << >>
        attributesInterface ==
            IF hasAttributes
            THEN <<"\n", "export interface ">> \o attributesInterfaceName \o <<" {">>
                 \o ConcatFileRows(attrs) \o <<"\n", "}", "\n">>
            ELSE << >>
        interfaceProps == ConcatFileRows(flds)
    IN ImportsText(ImportsSet(rows, attrs, flds)) \o <<"// ">> \o leftDrawerLink
       \o <<"\n", "export interface ">> \o fileName \o <<" {">> \o interfaceProps
       \o attributesProp \o <<"\n", "}", "\n">> \o attributesInterface

\* the file content from what the loop over pageSections collected: attrs
\* and flds are the FileRow records of 'Attributes' and of 'Fields'
InterfaceText(leftDrawerLink, fileName, rows, attrs, flds) ==
    LET attributesInterfaceName == fileName \o <<"Attributes">>
        hasAttributes == HasSection(rows, <<"Attributes">>)
        attributesProp ==
            IF hasAttributes
            THEN <<"\n", "    ", "attributes", ": ">> \o attributesInterfaceName
                 \o <<";", "\n">>
            ELSE << >>
        attributesInterface ==
            IF hasAttributes
            THEN <<"\n", "export interface ">> \o attributesInterfaceName \o <<" {">>
                 \o ConcatFileRows(attrs) \o <<"\n", "}", "\n">>
            ELSE << >>
        interfaceProps == ConcatFileRows(flds)
    IN ImportsText(ImportsSet(rows, attrs, flds)) \o <<"// ">> \o leftDrawerLink
       \o <<"\n", "export interface ">> \o fileName \o <<" {">> \o attributesProp
       \o interfaceProps \o <<"\n", "}", "\n">> \o attributesInterface

InterfaceOf(filePaths, leftDrawerLink, fileName, rows, pageSections) ==
    InterfaceText(leftDrawerLink, fileName, rows,
                  SectionRowsOf(filePaths, rows, pageSections, <<"Attributes">>),
                  SectionRowsOf(filePaths, rows, pageSections, <<"Fields">>))

CreateInterface(filePaths, leftDrawerLink, fileName, rows) ==
    InterfaceOf(filePaths, leftDrawerLink, fileName, rows, PageSections(rows))

(***************************************************************************)
(* getPageContent, and the table line of createFilePathObjectFile          *)
(***************************************************************************)
\* Array.prototype.reverse
Reverse(s) == [i \in DOMAIN s |-> s[Len(s) + 1 - i]]

\* the function run on #contentPanel: `lines` are the lines of innerText.
\* A blank line is '' or a line of spaces; the second line of a page with
\* fewer than two lines is undefined and urn.indexOf throws a TypeError.
IsBlank(line) == \A i \in DOMAIN line : line[i] = " "

\* a variant that keeps the blank lines of the panel
GetPageContentKeepsBlankLines(lines, folder) ==
    IF Len(lines) < 2 THEN THROWN
    ELSE LET urn == lines[2]
             urnString == Slice(urn, IndexOf(urn, "urn:") + 1,
                                LastIndexOf(urn, "com") + 1)
         IN <<lines[1],
              folder \o Join(Slice(Reverse(Split(urnString, ".")), 3,
                                   Len(Split(urnString, "."))), <<"/">>)>>
            \o SubSeq(lines, 3, Len(lines))

GetPageContent(lines, folder) ==
    LET kept == SelectSeq(lines, LAMBDA val : ~IsBlank(val))
    IN IF Len(kept) < 2 THEN THROWN
       ELSE LET fileName == kept[1]
                urn == kept[2]
                rows == SubSeq(kept, 3, Len(kept))
                urnIndex == IndexOf(urn, "urn:")
                endOfUrn == LastIndexOf(urn, "com") + 1
                \* the four characters of 'urn:' are one atom, the three of
                \* 'com' are one atom
                urnString == Slice(urn, urnIndex + 1, endOfUrn)
                partialFilePath ==
                    Join(Slice(Reverse(Split(urnString, ".")), 3,
                               Len(Split(urnString, "."))), <<"/">>)
            IN <<fileName, folder \o partialFilePath>> \o rows

\* getRootNetSuiteTypesFolder
RootNetSuiteTypesFolder(version) ==
    <<"netsuite-schema-browser-types", "/", "src", "/", version, "/">>

\* the relative path of the generated file's folder: all tabs except 'enum'
\* get one more folder level
RelativeFilePath(filePath, tab) ==
    IF tab # "enum" THEN filePath \o <<"/">> \o CapitalizeWord(<<tab>>) ELSE filePath

\* a variant that keeps the project folder in the recorded path
ProjectFilePathUnsliced(relativeFilePath) == relativeFilePath

\* relativeFilePath.slice('netsuite-schema-browser-types/'.length): without
\* its first 30 characters, the two atoms a root types folder starts with
ProjectFilePath(relativeFilePath) == Slice(relativeFilePath, 2, Len(relativeFilePath))

\* `    ${fileName}: '${projectFilePath}/${fileName}',`
TableLine(fileName, projectFilePath) ==
    <<"    ">> \o fileName \o <<": '">> \o projectFilePath \o <<"/">> \o fileName
    \o <<"',">>

\* fileContentLines.sort(caseInsensitiveSort): localeCompare on whole lines
RECURSIVE InsertLine(_, _)
InsertLine(sorted, x) ==
    IF sorted = << >> THEN <<x>>
    ELSE IF LocaleLess(x, Head(sorted)) THEN <<x>> \o sorted
    ELSE <<Head(sorted)>> \o InsertLine(Tail(sorted), x)

RECURSIVE SortLines(_)
SortLines(s) ==
    IF s = << >> THEN << >>
    ELSE InsertLine(SortLines(SubSeq(s, 1, Len(s) - 1)), s[Len(s)])

\* what require(`./filePath_${version}`) yields for a table file with these
\* lines: the object literal's properties; a repeated key keeps its last value
TableKey(line) == Slice(line, 1, IndexOf(line, ": '"))

TableValue(line) == Slice(line, IndexOf(line, ": '") + 1, Len(line) - 1)

LoadFilePaths(lines) ==
    [k \in {TableKey(lines[i]) : i \in DOMAIN lines} |->
        TableValue(lines[CHOOSE i \in DOMAIN lines :
                           /\ TableKey(lines[i]) = k
                           /\ \A j \in DOMAIN lines : TableKey(lines[j]) = k => j <= i])]

(***************************************************************************)
(* The schema browser: what the pages of the model's site hold.            *)
(***************************************************************************)
\* main's `versions`
AllVersions ==
    <<"2014_1", "2014_2", "2015_1", "2015_2", "2016_1", "2016_2", "2017_1",
      "2017_2", "2018_1", "2018_2", "2019_1", "2019_2", "2020_1", "2020_2",
      "2021_1", "2021_2", "2022_1">>

Versions == SubSeq(AllVersions, 1, NumVersions)

\* a variant with the tabs in the order of the comment above the array
leftHandTabsAsCommented == <<"record", "search", "other", "enum">>

\* the tabs of the left-hand drawer, as every driver lists them
leftHandTabs == <<"enum", "other", "record", "search">>

TopNames == <<"lists", "setup", "platform">>
SubNames == <<"accounting", "customization", "core">>
Digits == <<"1", "2", "3", "4">>

\* URLs are records: the root page of a version, a namespace page, a leaf page
RootUrl(v) == [kind |-> "root", v |-> v, n |-> 0, tab |-> "", i |-> 0]
NamespaceUrl(v, n) == [kind |-> "ns", v |-> v, n |-> n, tab |-> "", i |-> 0]
LeafUrl(v, n, tab, i) == [kind |-> "leaf", v |-> v, n |-> n, tab |-> tab, i |-> i]
Blank == [kind |-> "blank", v |-> "", n |-> 0, tab |-> "", i |-> 0]

\* the text of a URL, as it is written into a generated file's first line
UrlText(url) ==
    <<"https://", url.v, "/", url.tab, "/", Digits[url.n], "/", Digits[url.i]>>

\* the type a leaf page describes
TypeName(tab, n, i) == CapitalizeWord(<<tab>>) \o <<Digits[n], Digits[i]>>

HeaderRow ==
    <<"Name", "\t", "Type", "\t", "Cardinality", "\t", "Label", "\t", "Required",
      "\t", "Help">>

\* the rows of a leaf page below its two title lines
PageRows(url) ==
    IF url.tab = "enum"
    THEN <<<<"Value">>, <<"_", "a">>, <<"b", "-", "n">>>>
    ELSE IF url.tab = "other"
    THEN <<<<"Fields">>, HeaderRow,
           <<"internalId", "\t", "string", "\t", "0", "..", "1", "\t", "ID", "\t",
             "F", "\t", "id">>>>
    ELSE <<<<"Attributes">>, HeaderRow,
           <<"externalId", "\t", "string", "\t", "0", "..", "1">>,
           <<"Fields">>, HeaderRow,
           <<"ref", "\t">> \o TypeName("other", url.n, 1)
             \o <<"\t", "0", "..", "1", "\t", "Ref", "\t", "T", "\t", "ref">>,
           <<"kind", "\t">> \o TypeName("enum", url.n, 1)
             \o <<"\t", "0", "..", "unbounded">>,
           <<"Related Searches">>, <<"Name">>, <<"x">>>>

\* the lines of #contentPanel's innerText on a leaf page
PageLines(url) ==
    <<TypeName(url.tab, url.n, url.i), << >>,
      <<"Namespace: ", "urn:", SubNames[url.n], "_", url.v, ".", TopNames[url.n],
        ".", "webservices", ".", "netsuite", ".", "com">>>>
    \o PageRows(url)

\* the namespace page a page belongs to: every page of the schema browser
\* shows the package select and the left-hand drawer of its own namespace
\* (the root page, recordref.html, is a page of the first namespace)
\* getNamespaceLinks(page, rootNetSuiteSchemaUrl) on the page `at`
NamespaceLinks(at) ==
    IF at.kind = "blank" THEN << >>
    ELSE [n \in 1..NumNamespaces |-> NamespaceUrl(at.v, n)]

\* getLeftHandDrawerLinks(rootNetSuiteSchemaUrl, page, tab) on the page `at`
LeftHandDrawerLinks(at, tab) ==
    IF at.kind = "blank" THEN << >>
    ELSE [i \in 1..LeavesPerTab |->
            LeafUrl(at.v, IF at.n = 0 THEN 1 ELSE at.n, tab, i)]

(***************************************************************************)
(* The state of one run of the program.                                    *)
(***************************************************************************)
VARIABLES
    args,         \* the parsed command line: flags and string parameters
    main,         \* where main() is: the if-block, the version of its loop, the call
    proc,         \* "running", "rejected" (main's promise rejected), "done", "exited"
    exitCode,     \* -1 while the process runs, then its exit code
    drv,          \* the driver main awaits, with its locals and its position
    browser,      \* the Puppeteer session: open or not, and the page it shows
    tableFile,    \* src/filePath_<version>.ts: its lines, or ABSENT
    moduleCache,  \* the modules require() has loaded, by version
    tree,         \* the generated tree: path of a file |-> its text
    lastWrite,    \* the last write step: which step, whether the file existed, whether it was skipped
    calls,        \* the driver calls main has made: <<flag, driver, version>>
    tableLog,     \* by version: the leaf pages the table pass that persisted the table visited
    pageFailures, \* page-local failures so far
    render        \* the renderer under test, for the specification of the renderers

drvVars == <<args, main, proc, exitCode, drv, browser, tableFile, moduleCache, tree,
             lastWrite, calls, tableLog, pageFailures>>

vars == <<args, main, proc, exitCode, drv, browser, tableFile, moduleCache, tree,
          lastWrite, calls, tableLog, pageFailures, render>>

ABSENT == <<"%absent%">>

\* the boolean flags of the command line
Flags ==
    {"createFilePathObjectFile", "createFilesForAllVersions", "createFilesForNamespace",
     "createFilesForSingleVersion", "createIndexFilesForAllVersions",
     "createIndexFilesForSingleVersion", "createSingleFile", "fixImportsForAllVersions",
     "fixImportsForVersion"}

NoDriver ==
    [name |-> "none", flag |-> "", version |-> "", link |-> Blank, at |-> "idle",
     n |-> 0, t |-> 0, l |-> 0, namespaceLinks |-> << >>, leftDrawerLinks |-> << >>,
     fileContentLines |-> << >>, filePaths |-> << >>, fileCount |-> 0,
     launches |-> 0, closes |-> 0, visited |-> << >>, failed |-> << >>,
     todo |-> << >>]

NoWrite == [step |-> "none", existed |-> FALSE, skipped |-> FALSE, changed |-> FALSE]

NoRender == [pc |-> "idle", filePaths |-> << >>, fileName |-> << >>, rows |-> << >>,
             text |-> << >>, fileRow |-> << >>]

(***************************************************************************)
(* main: nine if-blocks in this order. Each names the flag it tests, the   *)
(* string parameter it also needs, whether it loops over `versions`, and   *)
(* the drivers it awaits, in order, for each version.                      *)
(***************************************************************************)
MainBlocksSwapped ==
    << [flag |-> "createFilesForSingleVersion", needs |-> "netsuiteVersion", loop |-> FALSE,
        drivers |-> <<"createFilePathObjectFile", "createFilesForVersion">>],
       [flag |-> "createFilesForAllVersions", needs |-> "", loop |-> TRUE,
        drivers |-> <<"createFilePathObjectFile", "createFilesForVersion">>],
       [flag |-> "createFilesForNamespace", needs |-> "namespaceLink", loop |-> FALSE,
        drivers |-> <<"createFilesForNamespace">>],
       [flag |-> "createSingleFile", needs |-> "link", loop |-> FALSE,
        drivers |-> <<"createSingleFile">>],
       [flag |-> "createFilePathObjectFile", needs |-> "netsuiteVersion", loop |-> FALSE,
        drivers |-> <<"createFilePathObjectFile">>],
       [flag |-> "createIndexFilesForAllVersions", needs |-> "", loop |-> TRUE,
        drivers |-> <<"createFilePathObjectFile">>],
       [flag |-> "createIndexFilesForSingleVersion", needs |-> "netsuiteVersion",
        loop |-> FALSE, drivers |-> <<"createIndexFilesForVersion">>],
       [flag |-> "fixImportsForAllVersions", needs |-> "", loop |-> TRUE,
        drivers |-> <<"fixImportsForVersion">>],
       [flag |-> "fixImportsForVersion", needs |-> "netsuiteVersion", loop |-> FALSE,
        drivers |-> <<"fixImportsForVersion">>] >>

MainBlocks ==
    << [flag |-> "createFilesForAllVersions", needs |-> "", loop |-> TRUE,
        drivers |-> <<"createFilePathObjectFile", "createFilesForVersion">>],
       [flag |-> "createFilesForSingleVersion", needs |-> "netsuiteVersion", loop |-> FALSE,
        drivers |-> <<"createFilePathObjectFile", "createFilesForVersion">>],
       [flag |-> "createFilesForNamespace", needs |-> "namespaceLink", loop |-> FALSE,
        drivers |-> <<"createFilesForNamespace">>],
       [flag |-> "createSingleFile", needs |-> "link", loop |-> FALSE,
        drivers |-> <<"createSingleFile">>],
       [flag |-> "createFilePathObjectFile", needs |-> "netsuiteVersion", loop |-> FALSE,
        drivers |-> <<"createFilePathObjectFile">>],
       [flag |-> "createIndexFilesForAllVersions", needs |-> "", loop |-> TRUE,
        drivers |-> <<"createFilePathObjectFile">>],
       [flag |-> "createIndexFilesForSingleVersion", needs |-> "netsuiteVersion",
        loop |-> FALSE, drivers |-> <<"createIndexFilesForVersion">>],
       [flag |-> "fixImportsForAllVersions", needs |-> "", loop |-> TRUE,
        drivers |-> <<"fixImportsForVersion">>],
       [flag |-> "fixImportsForVersion", needs |-> "netsuiteVersion", loop |-> FALSE,
        drivers |-> <<"fixImportsForVersion">>] >>

\* the condition of if-block b: `args.flag` or `args.flag && args.parameter`
BlockCondition(b) ==
    /\ MainBlocks[b].flag \in args.flags
    /\ CASE MainBlocks[b].needs = "netsuiteVersion" -> args.netsuiteVersion # ""
         [] MainBlocks[b].needs = "namespaceLink" -> args.namespaceLink # Blank
         [] MainBlocks[b].needs = "link" -> args.link # Blank
         [] OTHER -> TRUE

\* the version a call of block b works on
BlockVersion(b, vi) ==
    IF MainBlocks[b].loop THEN Versions[vi] ELSE args.netsuiteVersion

\* main's position after the call (b, vi, call) has returned
AfterCall(m) ==
    IF m.call < Len(MainBlocks[m.block].drivers)
    THEN [m EXCEPT !.call = m.call + 1]
    ELSE IF MainBlocks[m.block].loop /\ m.vi < Len(Versions)
    THEN [m EXCEPT !.vi = m.vi + 1, !.call = 1]
    ELSE [block |-> m.block + 1, vi |-> 1, call |-> 1]

(***************************************************************************)
(* The scraping drivers: createFilePathObjectFile, createFilesForVersion,  *)
(* createFilesForNamespace, createSingleFile. One action per awaited step. *)
(***************************************************************************)
ScrapingDrivers ==
    {"createFilePathObjectFile", "createFilesForVersion", "createFilesForNamespace",
     "createSingleFile"}

\* the drivers that load the file-path table before they launch the browser
RequiringDrivers == ScrapingDrivers \ {"createFilePathObjectFile"}

Running(names, at) == proc = "running" /\ drv.name \in names /\ drv.at = at

\* the first step of a driver
FirstStep(name) ==
    CASE name = "createFilePathObjectFile" -> "launch"
      [] name \in RequiringDrivers -> "require"
      [] OTHER -> "readdir"

\* a variant in which the table pass closes the browser without writing
AfterLoopsWithoutWrite(name) ==
    CASE name = "createFilesForVersion" -> "enum"
      [] OTHER -> "close"

\* the step after the loops over namespaces, tabs and leaf links
AfterLoops(name) ==
    CASE name = "createFilePathObjectFile" -> "write"
      [] name = "createFilesForVersion" -> "enum"
      [] OTHER -> "close"

\* the loops `for namespaceLink`, `for tab`, `for leftDrawerLink`: where the
\* driver goes when the body for leaf l, tab t or namespace n has ended
NextNamespace(d) ==
    IF d.n < Len(d.namespaceLinks)
    THEN [d EXCEPT !.n = d.n + 1, !.at = "gotoNamespace"]
    ELSE [d EXCEPT !.at = AfterLoops(d.name)]

NextTab(d) ==
    IF d.t < Len(leftHandTabs)
    THEN [d EXCEPT !.t = d.t + 1, !.at = "leftDrawerLinks"]
    ELSE NextNamespace(d)

NextLeaf(d) ==
    IF d.name = "createSingleFile" THEN [d EXCEPT !.at = "close"]
    ELSE IF d.l < Len(d.leftDrawerLinks)
    THEN [d EXCEPT !.l = d.l + 1, !.at = "gotoLeaf"]
    ELSE NextTab(d)

\* const { filePaths } = require(`./filePath_${version}`): the module is
\* loaded from the table file once and then served from require's cache;
\* a missing file throws MODULE_NOT_FOUND out of the driver
Require ==
    /\ Running(RequiringDrivers, "require")
    /\ IF moduleCache[drv.version] # ABSENT
       THEN /\ drv' = [drv EXCEPT !.filePaths = moduleCache[drv.version], !.at = "launch"]
            /\ UNCHANGED <<moduleCache, proc>>
       ELSE IF tableFile[drv.version] # ABSENT
       THEN /\ moduleCache' = [moduleCache EXCEPT
                                 ![drv.version] = LoadFilePaths(tableFile[drv.version])]
            /\ drv' = [drv EXCEPT !.filePaths = LoadFilePaths(tableFile[drv.version]),
                                  !.at = "launch"]
            /\ UNCHANGED proc
       ELSE /\ proc' = "rejected"
            /\ UNCHANGED <<moduleCache, drv>>
    /\ UNCHANGED <<args, main, exitCode, browser, tableFile, tree, lastWrite, calls,
                   tableLog, pageFailures, render>>

\* const browser = await Puppeteer.launch(...); const page = await browser.newPage()
Launch ==
    /\ Running(ScrapingDrivers, "launch")
    /\ browser' = [open |-> TRUE, page |-> Blank, usedAfterClose |-> FALSE]
    /\ drv' = [drv EXCEPT !.launches = drv.launches + 1,
                          !.at = CASE drv.name = "createFilesForNamespace" -> "gotoNamespaceLink"
                                   [] drv.name = "createSingleFile" -> "gotoLink"
                                   [] OTHER -> "gotoRoot"]
    /\ UNCHANGED <<args, main, proc, exitCode, tableFile, moduleCache, tree, lastWrite,
                   calls, tableLog, pageFailures, render>>

\* page.goto(url)
Goto(url) == [browser EXCEPT !.page = url,
                             !.usedAfterClose = browser.usedAfterClose \/ ~browser.open]

\* await page.goto(`${rootNetSuiteSchemaUrl}schema/other/recordref.html?mode=package`)
GotoRoot ==
    /\ Running({"createFilePathObjectFile", "createFilesForVersion"}, "gotoRoot")
    /\ browser' = Goto(RootUrl(drv.version))
    /\ drv' = [drv EXCEPT !.at = "namespaceLinks"]
    /\ UNCHANGED <<args, main, proc, exitCode, tableFile, moduleCache, tree, lastWrite,
                   calls, tableLog, pageFailures, render>>

\* const namespaceLinks = await getNamespaceLinks(page, rootNetSuiteSchemaUrl)
GetNamespaceLinks ==
    /\ Running({"createFilePathObjectFile", "createFilesForVersion"}, "namespaceLinks")
    /\ drv' = NextNamespace([drv EXCEPT !.namespaceLinks = NamespaceLinks(browser.page),
                                        !.n = 0])
    /\ UNCHANGED <<args, main, proc, exitCode, browser, tableFile, moduleCache, tree,
                   lastWrite, calls, tableLog, pageFailures, render>>

\* await page.goto(namespaceLink), first statement of the loop over namespaces
GotoNamespace ==
    /\ Running({"createFilePathObjectFile", "createFilesForVersion"}, "gotoNamespace")
    /\ browser' = Goto(drv.namespaceLinks[drv.n])
    /\ drv' = [drv EXCEPT !.t = 1, !.at = "leftDrawerLinks"]
    /\ UNCHANGED <<args, main, proc, exitCode, tableFile, moduleCache, tree, lastWrite,
                   calls, tableLog, pageFailures, render>>

\* createFilesForNamespace: await page.goto(namespaceLink), then the tabs
GotoNamespaceLink ==
    /\ Running({"createFilesForNamespace"}, "gotoNamespaceLink")
    /\ browser' = Goto(drv.link)
    /\ drv' = [drv EXCEPT !.t = 1, !.at = "leftDrawerLinks"]
    /\ UNCHANGED <<args, main, proc, exitCode, tableFile, moduleCache, tree, lastWrite,
                   calls, tableLog, pageFailures, render>>

\* createSingleFile: await page.goto(link), then the try block
GotoLink ==
    /\ Running({"createSingleFile"}, "gotoLink")
    /\ browser' = Goto(drv.link)
    /\ drv' = [drv EXCEPT !.visited = Append(drv.visited, drv.link), !.at = "page"]
    /\ UNCHANGED <<args, main, proc, exitCode, tableFile, moduleCache, tree, lastWrite,
                   calls, tableLog, pageFailures, render>>

\* const leftDrawerLinks = await getLeftHandDrawerLinks(rootNetSuiteSchemaUrl, page, tab)
GetLeftHandDrawerLinks ==
    /\ Running(ScrapingDrivers \ {"createSingleFile"}, "leftDrawerLinks")
    /\ LET links == LeftHandDrawerLinks(browser.page, leftHandTabs[drv.t])
           d == [drv EXCEPT !.leftDrawerLinks = links, !.l = 0]
       IN drv' = IF links = << >> THEN NextTab(d) ELSE NextLeaf(d)
    /\ UNCHANGED <<args, main, proc, exitCode, browser, tableFile, moduleCache, tree,
                   lastWrite, calls, tableLog, pageFailures, render>>

\* await page.goto(leftDrawerLink), before the try block
GotoLeaf ==
    /\ Running(ScrapingDrivers \ {"createSingleFile"}, "gotoLeaf")
    /\ browser' = Goto(drv.leftDrawerLinks[drv.l])
    /\ drv' = [drv EXCEPT !.visited = Append(drv.visited, drv.leftDrawerLinks[drv.l]),
                          !.at = "page"]
    /\ UNCHANGED <<args, main, proc, exitCode, tableFile, moduleCache, tree, lastWrite,
                   calls, tableLog, pageFailures, render>>

\* the try block of createFilePathObjectFile for the page the browser shows
TablePageResult(version, at, tab) ==
    LET content == GetPageContent(PageLines(at), RootNetSuiteTypesFolder(version))
    IN IF content = THROWN THEN THROWN
       ELSE TableLine(content[1], ProjectFilePath(RelativeFilePath(content[2], tab)))

\* the file a page is written to: `${outputPath}/${fileName}.ts`, as a path
\* below the folder that holds both projects
OutputFile(relativeFilePath, fileName) ==
    relativeFilePath \o <<"/">> \o fileName \o <<".ts">>

\* the try block of createFilesForVersion, createFilesForNamespace and
\* createSingleFile up to the write: the output file and its content
RenderResultOf(content, tab, fileContent) ==
    IF fileContent = THROWN
    THEN [thrown |-> TRUE, outputFile |-> << >>, fileContent |-> << >>]
    ELSE [thrown |-> FALSE,
          outputFile |-> OutputFile(RelativeFilePath(content[2], tab), content[1]),
          fileContent |-> fileContent]

RenderContent(filePaths, at, tab, content) ==
    IF content = THROWN THEN RenderResultOf(content, tab, THROWN)
    ELSE RenderResultOf(content, tab,
            IF tab # "enum"
            THEN CreateInterface(filePaths, UrlText(at), content[1],
                                 SubSeq(content, 3, Len(content)))
            ELSE CreateEnum(UrlText(at), content[1], SubSeq(content, 3, Len(content))))

RenderPageResult(version, filePaths, at, tab) ==
    RenderContent(filePaths, at, tab,
                  GetPageContent(PageLines(at), RootNetSuiteTypesFolder(version)))

\* FsExtra.writeFile(file, content): creates or replaces the file
WriteFile(t, file, content) ==
    [f \in DOMAIN t \cup {file} |-> IF f = file THEN content ELSE t[f]]

WriteRecord(step, t, file, content) ==
    [step |-> step, existed |-> file \in DOMAIN t, skipped |-> FALSE,
     changed |-> file \notin DOMAIN t \/ t[file] # content]

\* the try block of createFilePathObjectFile: the page's entry is pushed, or
\* the error of getPageContent is caught and logged
TablePage ==
    /\ Running({"createFilePathObjectFile"}, "page")
    /\ LET line == TablePageResult(drv.version, browser.page, leftHandTabs[drv.t])
       IN drv' = NextLeaf(IF line = THROWN
                          THEN [drv EXCEPT !.failed = Append(drv.failed, browser.page)]
                          ELSE [drv EXCEPT !.fileContentLines =
                                              Append(drv.fileContentLines, line)])
    /\ UNCHANGED <<args, main, proc, exitCode, browser, tableFile, moduleCache, tree,
                   lastWrite, calls, tableLog, pageFailures, render>>

\* the try block of the rendering drivers: the page is rendered and its
\* file written, or the error is caught and logged
RenderPage ==
    /\ Running(RequiringDrivers, "page")
    /\ \E res \in {RenderPageResult(drv.version, drv.filePaths, browser.page,
                                     IF drv.name = "createSingleFile" THEN drv.link.tab
                                     ELSE leftHandTabs[drv.t])} :
          IF res.thrown
          THEN /\ drv' = NextLeaf([drv EXCEPT !.failed = Append(drv.failed, browser.page)])
               /\ UNCHANGED <<tree, lastWrite>>
          ELSE /\ tree' = WriteFile(tree, res.outputFile, res.fileContent)
               /\ lastWrite' = WriteRecord("declaration", tree, res.outputFile,
                                           res.fileContent)
               /\ drv' = NextLeaf([drv EXCEPT !.fileCount = drv.fileCount + 1])
    /\ UNCHANGED <<args, main, proc, exitCode, browser, tableFile, moduleCache, calls,
                   tableLog, pageFailures, render>>

\* a variant without the try block: the error leaves the driver
PageFailsUncaught ==
    /\ Running(ScrapingDrivers, "page")
    /\ pageFailures < MaxPageFailures
    /\ pageFailures' = pageFailures + 1
    /\ proc' = "rejected"
    /\ UNCHANGED <<args, main, exitCode, drv, browser, tableFile, moduleCache, tree,
                   lastWrite, calls, tableLog, render>>

\* an error thrown inside the try block by the outside world (the content
\* panel is missing, the evaluation or the write fails): caught, logged with
\* the link, and the loop goes on
PageFails ==
    /\ Running(ScrapingDrivers, "page")
    /\ pageFailures < MaxPageFailures
    /\ pageFailures' = pageFailures + 1
    /\ drv' = NextLeaf([drv EXCEPT !.failed = Append(drv.failed, browser.page)])
    /\ UNCHANGED <<args, main, proc, exitCode, browser, tableFile, moduleCache, tree,
                   lastWrite, calls, tableLog, render>>

\* createFilePathObjectFile after the loops: the sorted lines are written to
\* filePath_<version>.ts, whether or not the file exists
WriteFilePathObject ==
    /\ Running({"createFilePathObjectFile"}, "write")
    /\ tableFile' = [tableFile EXCEPT ![drv.version] = SortLines(drv.fileContentLines)]
    /\ lastWrite' = [step |-> "filePathObject",
                     existed |-> tableFile[drv.version] # ABSENT, skipped |-> FALSE,
                     changed |-> tableFile[drv.version] # SortLines(drv.fileContentLines)]
    /\ tableLog' = [tableLog EXCEPT ![drv.version] = drv.visited]
    /\ drv' = [drv EXCEPT !.at = "close"]
    /\ UNCHANGED <<args, main, proc, exitCode, browser, moduleCache, tree, calls,
                   pageFailures, render>>

\* the entries of filePaths sorted by value (localeCompare)
RECURSIVE SortedByValue(_, _)
SortedByValue(filePaths, keys) ==
    IF keys = {} THEN << >>
    ELSE LET k == CHOOSE k \in keys :
                    \A o \in keys : ~LocaleLess(filePaths[o], filePaths[k])
         IN <<k>> \o SortedByValue(filePaths, keys \ {k})

\* filePath.slice(0, filePath.lastIndexOf('/') + 1)
ParentFolder(filePath) == Slice(filePath, 0, LastIndexOf(filePath, "/") + 1)

RECURSIVE FilePathEnumEntries(_, _, _)
FilePathEnumEntries(filePaths, sortedKeys, previousParentFolder) ==
    IF sortedKeys = << >> THEN << >>
    ELSE LET localFileName == Head(sortedKeys)
             filePath == filePaths[localFileName]
             parentFolder == ParentFolder(filePath)
             newLineOrEmptyString ==
                 IF previousParentFolder # << >> /\ previousParentFolder # parentFolder
                 THEN <<"\n">> ELSE << >>
         IN <<"\n">> \o newLineOrEmptyString \o <<"    ">> \o localFileName
            \o <<" = '">> \o filePath \o <<"',">>
            \o FilePathEnumEntries(filePaths, Tail(sortedKeys), parentFolder)

FilePathEnumContent(fileName, filePaths) ==
    <<"export enum ">> \o fileName \o <<" {">>
    \o FilePathEnumEntries(filePaths, SortedByValue(filePaths, DOMAIN filePaths), << >>)
    \o <<"\n", "}", "\n">>

\* `../../netsuite-schema-browser-types/src/${version}`
VersionFolder(version) == <<"netsuite-schema-browser-types", "/", "src", "/", version>>

FilePathEnumFile(version) ==
    VersionFolder(version) \o <<"/", "enums", "/", "FilePath", ".ts">>

\* a variant without the pathExists test
CreateFilePathEnumOverwrites ==
    /\ Running({"createFilesForVersion"}, "enum")
    /\ tree' = WriteFile(tree, FilePathEnumFile(drv.version),
                         FilePathEnumContent(<<"FilePath">>, drv.filePaths))
    /\ lastWrite' = WriteRecord("filePathEnum", tree, FilePathEnumFile(drv.version),
                                FilePathEnumContent(<<"FilePath">>, drv.filePaths))
    /\ drv' = [drv EXCEPT !.at = "close"]
    /\ UNCHANGED <<args, main, proc, exitCode, browser, tableFile, moduleCache, calls,
                   tableLog, pageFailures, render>>

\* createFilePathEnum, awaited by createFilesForVersion after its loops: it
\* returns at once when the enum file exists, and writes it otherwise
CreateFilePathEnum ==
    /\ Running({"createFilesForVersion"}, "enum")
    /\ LET outputFile == FilePathEnumFile(drv.version)
           fileContent == FilePathEnumContent(<<"FilePath">>, drv.filePaths)
       IN IF outputFile \in DOMAIN tree
          THEN /\ lastWrite' = [step |-> "filePathEnum", existed |-> TRUE,
                                skipped |-> TRUE, changed |-> FALSE]
               /\ UNCHANGED tree
          ELSE /\ tree' = WriteFile(tree, outputFile, fileContent)
               /\ lastWrite' = WriteRecord("filePathEnum", tree, outputFile, fileContent)
    /\ drv' = [drv EXCEPT !.at = "close"]
    /\ UNCHANGED <<args, main, proc, exitCode, browser, tableFile, moduleCache, calls,
                   tableLog, pageFailures, render>>

\* a variant that returns without closing the browser
CloseBrowserMissing ==
    /\ Running(ScrapingDrivers, "close")
    /\ drv' = [drv EXCEPT !.at = "return"]
    /\ UNCHANGED <<args, main, proc, exitCode, browser, tableFile, moduleCache, tree,
                   lastWrite, calls, tableLog, pageFailures, render>>

\* await browser.close(), the last statement of every scraping driver
CloseBrowser ==
    /\ Running(ScrapingDrivers, "close")
    /\ browser' = [browser EXCEPT !.open = FALSE]
    /\ drv' = [drv EXCEPT !.closes = drv.closes + 1, !.at = "return"]
    /\ UNCHANGED <<args, main, proc, exitCode, tableFile, moduleCache, tree, lastWrite,
                   calls, tableLog, pageFailures, render>>

\* the steps of a scraping driver that are awaited outside any try block:
\* an error of the browser or of the file system there leaves the driver
ThrowingSteps ==
    {"launch", "gotoRoot", "namespaceLinks", "gotoNamespace", "gotoNamespaceLink",
     "gotoLink", "leftDrawerLinks", "gotoLeaf", "write", "enum", "close"}

(***************************************************************************)
(* The generated tree as a directory tree; parseFolderContents,            *)
(* createIndexFileContent, getImportRegex, replaceFullImports              *)
(***************************************************************************)
IsPrefix(p, s) == Len(p) <= Len(s) /\ SubSeq(s, 1, Len(p)) = p

\* the files of the tree below `folder`
Below(t, folder) == {f \in DOMAIN t : IsPrefix(folder \o <<"/">>, f)}

\* a set of names as a sequence in the order of localeCompare
RECURSIVE SortedNames(_)
SortedNames(names) ==
    IF names = {} THEN << >>
    ELSE LET x == CHOOSE x \in names : \A o \in names : ~LocaleLess(o, x)
         IN <<x>> \o SortedNames(names \ {x})

\* FsExtra.readdir(folder): the names of the entries of the folder, << >>
\* for a folder that does not exist (readdir then throws ENOENT)
Readdir(t, folder) ==
    SortedNames({Split(SubSeq(f, Len(folder) + 2, Len(f)), "/")[1] : f \in Below(t, folder)})

\* the atoms that hold a '.', and those that hold '.ts'
DotAtoms == {".", ".ts", ".tsx", ".bak", ".."}
DotTsAtoms == {".ts", ".tsx"}

\* content.replace('.ts', ''): the first '.ts' is removed
RECURSIVE RemoveFirstDotTs(_)
RemoveFirstDotTs(content) ==
    IF content = << >> THEN << >>
    ELSE IF Head(content) = ".ts" THEN Tail(content)
    ELSE IF Head(content) = ".tsx" THEN <<"x">> \o Tail(content)
    ELSE <<Head(content)>> \o RemoveFirstDotTs(Tail(content))

\* a variant without the test `content !== 'index.ts'`
RECURSIVE ParseFolderContentsWithIndex(_)
ParseFolderContentsWithIndex(contents) ==
    IF contents = << >> THEN [files |-> << >>, folders |-> << >>]
    ELSE LET content == Head(contents)
             rest == ParseFolderContentsWithIndex(Tail(contents))
             isFolder == \A i \in DOMAIN content : content[i] \notin DotAtoms
             isFile == \E i \in DOMAIN content : content[i] \in DotTsAtoms
         IN [files |-> (IF isFile THEN <<RemoveFirstDotTs(content)>> ELSE << >>)
                       \o rest.files,
             folders |-> (IF isFolder THEN <<content>> ELSE << >>) \o rest.folders]

RECURSIVE ParseFolderContents(_)
ParseFolderContents(contents) ==
    IF contents = << >> THEN [files |-> << >>, folders |-> << >>]
    ELSE LET content == Head(contents)
             rest == ParseFolderContents(Tail(contents))
             isFolder == \A i \in DOMAIN content : content[i] \notin DotAtoms
             isFile == /\ \E i \in DOMAIN content : content[i] \in DotTsAtoms
                       /\ content # <<"index", ".ts">>
         IN [files |-> (IF isFile THEN <<RemoveFirstDotTs(content)>> ELSE << >>)
                       \o rest.files,
             folders |-> (IF isFolder THEN <<content>> ELSE << >>) \o rest.folders]

CreateIndexFileContent(folderContents) ==
    Join([i \in DOMAIN folderContents |->
            <<"export * from './">> \o folderContents[i] \o <<"';">>], <<"\n">>)

\* the atoms that are not made of word characters only (\w)
NonWordAtoms ==
    DotAtoms \cup {"\t", "\n", " ", "    ", "/", "-", ": ", ";", "';", "',", "?", "[]",
                   " // ", "// ", "import type { ", " } from '", "export * from './",
                   "export interface ", "export enum ", " {", "}", " = '", "https://"}

\* getImportRegex(), matched against one line:
\* /(import\s+type\s+\{\s*\w+\s*\}\s+from\s+')(src[A-Za-z0-9_/-]+)(';)/
\* whether the line has a match, and the three groups
MatchImport(line) ==
    LET i == IndexOf(line, "import type { ") + 1
        j == IndexOf(line, " } from '") + 1
        ends == {k \in DOMAIN line : k > j /\ line[k] = "';"}
        k == IF ends = {} THEN 0 ELSE CHOOSE k \in ends : \A o \in ends : k <= o
    IN IF /\ i > 0 /\ j > i + 1 /\ k > j + 2
          /\ \A x \in (i + 1)..(j - 1) : line[x] \notin NonWordAtoms
          /\ line[j + 1] = "src"
          /\ \A x \in (j + 2)..(k - 1) :
                line[x] \notin NonWordAtoms \/ line[x] \in {"/", "-"}
       THEN [matched |-> TRUE, importStart |-> SubSeq(line, i, j),
             importPath |-> SubSeq(line, j + 1, k - 1), importEnd |-> <<"';">>]
       ELSE [matched |-> FALSE, importStart |-> << >>, importPath |-> << >>,
             importEnd |-> << >>]

\* fileContent.search(regex) > -1
DoesFileContentIncludeFullImports(fileContent) ==
    \E lines \in {Split(fileContent, "\n")} :
        \E i \in DOMAIN lines : MatchImport(lines[i]).matched

\* a variant that ascends once for each folder of the importing file below
\* the common leading segments
NewImportPathByDepth(filePathParts, importPathParts) ==
    LET len == Len(importPathParts)
        diff == {i \in 1..len : At(filePathParts, i - 1) # importPathParts[i]}
        first == IF diff = {} THEN len + 1 ELSE CHOOSE i \in diff : \A o \in diff : i <= o
        newImportPathParts == SubSeq(importPathParts, first, len)
        count == IF first < Len(filePathParts) THEN Len(filePathParts) - first ELSE 0
        relativePathPortions == IF count # 0 THEN [c \in 1..count |-> <<"..">>]
                                ELSE <<<<".">>>>
    IN Join(relativePathPortions \o newImportPathParts, <<"/">>)

\* the loop over importPathParts: the parts from the first one that differs
\* from the importing file's part at the same position, after `count` '..'
NewImportPath(filePathParts, importPathParts) ==
    LET len == Len(importPathParts)
        diff == {i \in 1..len : At(filePathParts, i - 1) # importPathParts[i]}
        first == IF diff = {} THEN len + 1 ELSE CHOOSE i \in diff : \A o \in diff : i <= o
        newImportPathParts == SubSeq(importPathParts, first, len)
        count == IF first < len THEN len - first ELSE 0
        relativePathPortions == IF count # 0 THEN [c \in 1..count |-> <<"..">>]
                                ELSE <<<<".">>>>
    IN Join(relativePathPortions \o newImportPathParts, <<"/">>)

\* a variant that rewrites the first matching line of the file only
ReplaceFirstFullImport(filePath, fileContent) ==
    LET filePathParts == Split(SliceFrom(filePath, IndexOfSrc(filePath)), "/")
        lines == Split(fileContent, "\n")
        newLine(fileContentLine) ==
            LET regexResults == MatchImport(fileContentLine)
            IN IF ~regexResults.matched THEN fileContentLine
               ELSE regexResults.importStart
                    \o NewImportPath(filePathParts, Split(regexResults.importPath, "/"))
                    \o regexResults.importEnd
    IN Join([i \in DOMAIN lines |->
               IF \E j \in 1..(i - 1) : MatchImport(lines[j]).matched THEN lines[i]
               ELSE newLine(lines[i])], <<"\n">>)

ReplaceFullImports(filePath, fileContent) ==
    LET filePathParts == Split(SliceFrom(filePath, IndexOfSrc(filePath)), "/")
        lines == Split(fileContent, "\n")
        newLine(fileContentLine) ==
            LET regexResults == MatchImport(fileContentLine)
            IN IF ~regexResults.matched THEN fileContentLine
               ELSE regexResults.importStart
                    \o NewImportPath(filePathParts, Split(regexResults.importPath, "/"))
                    \o regexResults.importEnd
    IN Join([i \in DOMAIN lines |-> newLine(lines[i])], <<"\n">>)

(***************************************************************************)
(* createIndexFilesForVersion and fixImportsForVersion: the walk over the  *)
(* four folder levels, kept as the list of what is still to be handled.    *)
(***************************************************************************)
\* the folders found in `folder`, to be walked unless `folder` is at the
\* fourth level (version, top namespace, sub namespace, entity or type)
ChildFolders(folder, folders, level) ==
    IF level < 3
    THEN [i \in DOMAIN folders |->
            [file |-> FALSE, path |-> folder \o <<"/">> \o folders[i], level |-> level + 1]]
    ELSE << >>

\* readdir of the next folder, and its index.ts written over whatever is there
IndexFolder ==
    /\ Running({"createIndexFilesForVersion"}, "readdir")
    /\ LET item == Head(drv.todo)
           contents == Readdir(tree, item.path)
           parsed == ParseFolderContents(contents)
           indexFile == item.path \o <<"/", "index", ".ts">>
           fileContent == CreateIndexFileContent(parsed.files \o parsed.folders)
           todo == ChildFolders(item.path, parsed.folders, item.level) \o Tail(drv.todo)
       IN IF contents = << >>
          THEN /\ proc' = "rejected"
               /\ UNCHANGED <<tree, lastWrite, drv>>
          ELSE /\ tree' = WriteFile(tree, indexFile, fileContent)
               /\ lastWrite' = WriteRecord("index", tree, indexFile, fileContent)
               /\ drv' = [drv EXCEPT !.todo = todo,
                                     !.at = IF todo = << >> THEN "return" ELSE "readdir"]
               /\ UNCHANGED proc
    /\ UNCHANGED <<args, main, exitCode, browser, tableFile, moduleCache, calls, tableLog,
                   pageFailures, render>>

\* readdir of the next folder: its files are handled first, then its folders
FixReaddir ==
    /\ Running({"fixImportsForVersion"}, "readdir")
    /\ ~Head(drv.todo).file
    /\ LET item == Head(drv.todo)
           contents == Readdir(tree, item.path)
           parsed == ParseFolderContents(contents)
           files == [i \in DOMAIN parsed.files |->
                       [file |-> TRUE,
                        path |-> item.path \o <<"/">> \o parsed.files[i] \o <<".ts">>,
                        level |-> item.level]]
           todo == files \o ChildFolders(item.path, parsed.folders, item.level)
                   \o Tail(drv.todo)
       IN IF contents = << >>
          THEN /\ proc' = "rejected"
               /\ UNCHANGED drv
          ELSE /\ drv' = [drv EXCEPT !.todo = todo,
                                     !.at = IF todo = << >> THEN "return" ELSE "readdir"]
               /\ UNCHANGED proc
    /\ UNCHANGED <<args, main, exitCode, browser, tableFile, moduleCache, tree, lastWrite,
                   calls, tableLog, pageFailures, render>>

\* a variant that writes every file it reads, rewritten or not
FixFileAlwaysWrites ==
    /\ Running({"fixImportsForVersion"}, "readdir")
    /\ Head(drv.todo).file
    /\ LET file == Head(drv.todo).path
           todo == Tail(drv.todo)
       IN IF file \notin DOMAIN tree
          THEN /\ proc' = "rejected"
               /\ UNCHANGED <<tree, lastWrite, drv>>
          ELSE /\ tree' = WriteFile(tree, file, ReplaceFullImports(file, tree[file]))
               /\ lastWrite' = WriteRecord("imports", tree, file,
                                           ReplaceFullImports(file, tree[file]))
               /\ drv' = [drv EXCEPT !.todo = todo,
                                     !.at = IF todo = << >> THEN "return" ELSE "readdir"]
               /\ UNCHANGED proc
    /\ UNCHANGED <<args, main, exitCode, browser, tableFile, moduleCache, calls, tableLog,
                   pageFailures, render>>

\* one file of the walk: read, and rewritten only when the detection regex
\* finds a project-root import in it; readFile of a missing file throws
FixFile ==
    /\ Running({"fixImportsForVersion"}, "readdir")
    /\ Head(drv.todo).file
    /\ LET file == Head(drv.todo).path
           todo == Tail(drv.todo)
       IN IF file \notin DOMAIN tree
          THEN /\ proc' = "rejected"
               /\ UNCHANGED <<tree, lastWrite, drv>>
          ELSE /\ IF DoesFileContentIncludeFullImports(tree[file])
                  THEN /\ tree' = WriteFile(tree, file, ReplaceFullImports(file, tree[file]))
                       /\ lastWrite' = WriteRecord("imports", tree, file,
                                                   ReplaceFullImports(file, tree[file]))
                  ELSE UNCHANGED <<tree, lastWrite>>
               /\ drv' = [drv EXCEPT !.todo = todo,
                                     !.at = IF todo = << >> THEN "return" ELSE "readdir"]
               /\ UNCHANGED proc
    /\ UNCHANGED <<args, main, exitCode, browser, tableFile, moduleCache, calls, tableLog,
                   pageFailures, render>>

\* a variant in which the driver closes the browser before the error leaves
\* it, as a finally block would
DriverThrowsClosing ==
    /\ proc = "running"
    /\ drv.name # "none"
    /\ drv.at \in ThrowingSteps \cup {"readdir"}
    /\ proc' = "rejected"
    /\ browser' = [browser EXCEPT !.open = FALSE]
    /\ UNCHANGED <<args, main, exitCode, drv, tableFile, moduleCache, tree,
                   lastWrite, calls, tableLog, pageFailures, render>>

\* a variant in which a failed navigation to a leaf page is caught like a
\* failure inside the try block, and the loop goes on
DriverThrowsLeafCaught ==
    /\ proc = "running"
    /\ drv.name # "none"
    /\ drv.at \in ThrowingSteps \cup {"readdir"}
    /\ IF drv.at = "gotoLeaf"
       THEN /\ drv' = NextLeaf([drv EXCEPT
                                  !.failed = Append(drv.failed,
                                                    drv.leftDrawerLinks[drv.l])])
            /\ UNCHANGED proc
       ELSE /\ proc' = "rejected"
            /\ UNCHANGED drv
    /\ UNCHANGED <<args, main, exitCode, browser, tableFile, moduleCache, tree,
                   lastWrite, calls, tableLog, pageFailures, render>>

\* an awaited step outside any try block throws: the driver's promise is
\* rejected where it stands, and with it main's
DriverThrows ==
    /\ proc = "running"
    /\ drv.name # "none"
    /\ drv.at \in ThrowingSteps \cup {"readdir"}
    /\ proc' = "rejected"
    /\ UNCHANGED <<args, main, exitCode, drv, browser, tableFile, moduleCache, tree,
                   lastWrite, calls, tableLog, pageFailures, render>>

(***************************************************************************)
(* main                                                                    *)
(***************************************************************************)
\* the driver call (block, vi, call) starts: the driver's locals are fresh
StartDriver(name, flag, version, link) ==
    [NoDriver EXCEPT !.name = name, !.flag = flag, !.version = version, !.link = link,
                     !.at = FirstStep(name),
                     !.todo = IF name \in ScrapingDrivers THEN << >>
                              ELSE <<[file |-> FALSE, path |-> VersionFolder(version),
                                      level |-> 0]>>]

\* an if-block whose condition is false is passed over
MainSkip ==
    /\ proc = "running" /\ drv.name = "none"
    /\ main.block <= Len(MainBlocks)
    /\ ~BlockCondition(main.block)
    /\ main' = [block |-> main.block + 1, vi |-> 1, call |-> 1]
    /\ UNCHANGED <<args, proc, exitCode, drv, browser, tableFile, moduleCache, tree,
                   lastWrite, calls, tableLog, pageFailures, render>>

\* main awaits the next driver of the block it is in. createFilesForNamespace
\* and createSingleFile take the version (browserVersion.slice(7)) from their link
MainCall ==
    /\ proc = "running" /\ drv.name = "none"
    /\ main.block <= Len(MainBlocks)
    /\ BlockCondition(main.block)
    /\ LET blk == MainBlocks[main.block]
           name == blk.drivers[main.call]
           link == CASE name = "createFilesForNamespace" -> args.namespaceLink
                     [] name = "createSingleFile" -> args.link
                     [] OTHER -> Blank
           version == IF link # Blank THEN link.v ELSE BlockVersion(main.block, main.vi)
       IN /\ drv' = StartDriver(name, blk.flag, version, link)
          /\ calls' = Append(calls, <<blk.flag, name, version>>)
    /\ UNCHANGED <<args, main, proc, exitCode, browser, tableFile, moduleCache, tree,
                   lastWrite, tableLog, pageFailures, render>>

\* the awaited driver returns and main goes on
DriverReturns ==
    /\ proc = "running" /\ drv.name # "none" /\ drv.at = "return"
    /\ drv' = NoDriver
    /\ main' = AfterCall(main)
    /\ UNCHANGED <<args, proc, exitCode, browser, tableFile, moduleCache, tree, lastWrite,
                   calls, tableLog, pageFailures, render>>

\* main returns after its last if-block: the process ends with exit code 0
MainResolves ==
    /\ proc = "running" /\ drv.name = "none"
    /\ main.block = Len(MainBlocks) + 1
    /\ proc' = "done"
    /\ exitCode' = 0
    /\ UNCHANGED <<args, main, drv, browser, tableFile, moduleCache, tree, lastWrite,
                   calls, tableLog, pageFailures, render>>

\* a variant that logs the error and goes on with the next call
MainCatchGoesOn ==
    /\ proc = "rejected"
    /\ proc' = "running"
    /\ drv' = NoDriver
    /\ main' = AfterCall(main)
    /\ UNCHANGED <<args, exitCode, browser, tableFile, moduleCache, tree, lastWrite,
                   calls, tableLog, pageFailures, render>>

\* main().catch(error => { logger.error(error); process.exit(1); })
MainCatch ==
    /\ proc = "rejected"
    /\ proc' = "exited"
    /\ exitCode' = 1
    /\ UNCHANGED <<args, main, drv, browser, tableFile, moduleCache, tree, lastWrite,
                   calls, tableLog, pageFailures, render>>

(***************************************************************************)
(* The initial state: the command line, and the files on disk.             *)
(***************************************************************************)
\* the leaf pages of a version in the order a pass visits them
AllLeaves(v) ==
    [k \in 1..(NumNamespaces * Len(leftHandTabs) * LeavesPerTab) |->
        LeafUrl(v, ((k - 1) \div (Len(leftHandTabs) * LeavesPerTab)) + 1,
                leftHandTabs[(((k - 1) \div LeavesPerTab) % Len(leftHandTabs)) + 1],
                ((k - 1) % LeavesPerTab) + 1)]

\* what an earlier, complete run of createFilesForAllVersions left on disk
GeneratedTableFile(v) ==
    SortLines([k \in DOMAIN AllLeaves(v) |->
                 TablePageResult(v, AllLeaves(v)[k], AllLeaves(v)[k].tab)])

GeneratedFile(v, k) ==
    RenderPageResult(v, LoadFilePaths(GeneratedTableFile(v)), AllLeaves(v)[k],
                     AllLeaves(v)[k].tab)

\* the declaration files and the FilePath enums of the given versions
TreeOf(declarations, enums) ==
    [f \in {d.outputFile : d \in declarations} \cup {e[1] : e \in enums} |->
        IF \E e \in enums : e[1] = f
        THEN (CHOOSE e \in enums : e[1] = f)[2]
        ELSE (CHOOSE d \in declarations : d.outputFile = f).fileContent]

GeneratedTree ==
    TreeOf({GeneratedFile(Versions[x], k) :
               x \in DOMAIN Versions, k \in DOMAIN AllLeaves(Versions[1])},
           {<<FilePathEnumFile(Versions[x]),
              FilePathEnumContent(<<"FilePath">>,
                                  LoadFilePaths(GeneratedTableFile(Versions[x])))>> :
               x \in DOMAIN Versions})

VersionSet == {Versions[x] : x \in DOMAIN Versions}

\* the command lines of the model: at most MaxFlags flags; a string
\* parameter is given or not when a flag that is set reads it
ArgsSet ==
    {[flags |-> fl, netsuiteVersion |-> nv, namespaceLink |-> nl, link |-> li] :
        fl \in {S \in SUBSET Flags : Cardinality(S) <= MaxFlags},
        nv \in {"", Versions[1]},
        nl \in {Blank, NamespaceUrl(Versions[1], 1)},
        li \in {Blank, LeafUrl(Versions[1], 1, "record", 1),
                LeafUrl(Versions[1], 1, "enum", 1)}}

Reads(fl, parameter) == \E b \in DOMAIN MainBlocks :
    MainBlocks[b].flag \in fl /\ MainBlocks[b].needs = parameter

DriverInit ==
    /\ args \in {a \in ArgsSet :
                   /\ a.netsuiteVersion # "" => Reads(a.flags, "netsuiteVersion")
                   /\ a.namespaceLink # Blank => Reads(a.flags, "namespaceLink")
                   /\ a.link # Blank => Reads(a.flags, "link")}
    /\ main = [block |-> 1, vi |-> 1, call |-> 1]
    /\ proc = "running"
    /\ exitCode = -1
    /\ drv = NoDriver
    /\ browser = [open |-> FALSE, page |-> Blank, usedAfterClose |-> FALSE]
    /\ \/ /\ tableFile = [v \in VersionSet |-> ABSENT]
          /\ tree = << >>
       \/ /\ tableFile = [v \in VersionSet |-> GeneratedTableFile(v)]
          /\ tree = GeneratedTree
    /\ moduleCache = [v \in VersionSet |-> ABSENT]
    /\ lastWrite = NoWrite
    /\ calls = << >>
    /\ tableLog = [v \in VersionSet |-> ABSENT]
    /\ pageFailures = 0

Init == DriverInit /\ render = NoRender

Next ==
    \/ MainSkip
    \/ MainCall
    \/ DriverReturns
    \/ MainResolves
    \/ MainCatch
    \/ Require
    \/ Launch
    \/ GotoRoot
    \/ GetNamespaceLinks
    \/ GotoNamespace
    \/ GotoNamespaceLink
    \/ GotoLink
    \/ GetLeftHandDrawerLinks
    \/ GotoLeaf
    \/ TablePage
    \/ RenderPage
    \/ PageFails
    \/ WriteFilePathObject
    \/ CreateFilePathEnum
    \/ CloseBrowser
    \/ IndexFolder
    \/ FixReaddir
    \/ FixFile
    \/ DriverThrows

Spec == Init /\ [][Next]_vars

(***************************************************************************)
(* The renderer on its own: createInterface and createFileRow applied to   *)
(* the rows of one page. The program is idle; `render` holds the inputs    *)
(* and then the result.                                                    *)
(***************************************************************************)
\* column-header rows: the six columns of the schema browser, the same in
\* lower case, and a header without the `label` column
LowerHeaderRow ==
    <<"name", "\t", "type", "\t", "cardinality", "\t", "label", "\t", "required",
      "\t", "help">>

HeaderRowWithoutLabel ==
    <<"name", "\t", "type", "\t", "cardinality", "\t", "required", "\t", "help">>

\* a data row: name, type, cardinality, label, required, help
DataRow(type, cardinality, required, help) ==
    <<"acctName", "\t">> \o type \o <<"\t">> \o cardinality \o <<"\t", "Name", "\t">>
    \o required \o <<"\t">> \o help

\* the pages the renderer is applied to: a Fields section of one data row,
\* with every combination of the type, cardinality, required and help cells
\* below, under each header, with and without a table entry for RecordRef
RenderInputs ==
    LET RenderTypes ==
            {<<"string">>, <<"double">>, <<"dateTime">>, <<"RecordRef">>, <<"int">>,
             <<"long">>, <<"boolean">>, <<"datetime">>, <<"Double">>, <<"toString">>}
        RenderCardinalities ==
            {<< >>, <<"0", "..", "1">>, <<"1", "..", "1">>, <<"0", "..", "unbounded">>,
             <<"1", "..", "unbounded">>, <<"1">>, <<"0", "..", "Unbounded">>}
        RenderRequired == {<< >>, <<"T">>, <<"F">>, <<"t">>}
        RenderHelp == {<< >>, <<"description">>}
        RenderFilePaths ==
            {<< >>,
             (<<"RecordRef">> :> <<"src", "/", "2014_1", "/", "platform", "/", "core",
                                   "/", "Other", "/", "RecordRef">>)}
    IN {[pc |-> "input", filePaths |-> fp, fileName |-> <<"Account">>,
         rows |-> <<<<"Fields">>, h, DataRow(t, c, r, hp)>>, text |-> << >>,
         fileRow |-> << >>] :
           fp \in RenderFilePaths,
           h \in {HeaderRow, LowerHeaderRow, HeaderRowWithoutLabel},
           t \in RenderTypes, c \in RenderCardinalities, r \in RenderRequired,
           hp \in RenderHelp}

RenderLink == UrlText(LeafUrl(Versions[1], 1, "record", 1))

\* createInterface(filePaths, leftDrawerLink, fileName, rows)
RunCreateInterface ==
    /\ render.pc = "input"
    /\ render' = [render EXCEPT !.pc = "interface",
                                !.text = CreateInterface(render.filePaths, RenderLink,
                                                         render.fileName, render.rows)]
    /\ UNCHANGED drvVars

\* createFileRow(filePaths, columnNames, row) for the data row of the page,
\* with the column names createInterface takes from the header row
RunCreateFileRow ==
    /\ render.pc = "input"
    /\ render' = [render EXCEPT !.pc = "row",
                                !.fileRow = CreateFileRow(render.filePaths,
                                                SectionColumnNames(Tail(render.rows)),
                                                render.rows[3]).fileRow]
    /\ UNCHANGED drvVars

InitRender ==
    /\ args = [flags |-> {}, netsuiteVersion |-> "", namespaceLink |-> Blank,
               link |-> Blank]
    /\ main = [block |-> 1, vi |-> 1, call |-> 1]
    /\ proc = "running"
    /\ exitCode = -1
    /\ drv = NoDriver
    /\ browser = [open |-> FALSE, page |-> Blank, usedAfterClose |-> FALSE]
    /\ tableFile = [v \in VersionSet |-> ABSENT]
    /\ tree = << >>
    /\ moduleCache = [v \in VersionSet |-> ABSENT]
    /\ lastWrite = NoWrite
    /\ calls = << >>
    /\ tableLog = [v \in VersionSet |-> ABSENT]
    /\ pageFailures = 0
    /\ render \in RenderInputs

NextRender ==
    \/ RunCreateInterface
    \/ RunCreateFileRow

SpecRender == InitRender /\ [][NextRender]_vars

(***************************************************************************)
(* Properties of the renderer (under SpecRender).                          *)
(***************************************************************************)
\* the cell of the page's data row under the header column named `column`
\* (compared in lower case), '' when the header has no such column or the
\* row has no cell there
CellOf(rows, column) ==
    LET header == Split(rows[2], "\t")
        cells == Split(rows[3], "\t")
        at == {i \in DOMAIN header : ToLowerCase(header[i]) = column}
    IN IF at = {} \/ \A i \in at : i \notin DOMAIN cells THEN << >>
       ELSE cells[CHOOSE i \in at : i \in DOMAIN cells]

\* the part of the cardinality cell before the first '..', and the part
\* after it up to the next '..' (undefined when there is no '..')
CardinalityMinimum(rows) == At(Split(CellOf(rows, <<"cardinality">>), ".."), 0)
CardinalityMaximum(rows) == At(Split(CellOf(rows, <<"cardinality">>), ".."), 1)

\* s occurs in text as a run of consecutive atoms
Occurs(s, text) ==
    \E i \in 0..(Len(text) - Len(s)) : SubSeq(text, i + 1, i + Len(s)) = s

C8Row == DataRow(<<"string">>, <<"0", "..", "1">>, <<"T">>, <<"description">>)

C8Line == <<"\n", "    ", "acctName", ": ", "string", ";", " // ", "description", "\n">>

\* C8 as stated: with the header name, type, cardinality, required, help
\* (no label column) the data row acctName, string, 0..1, Name, T,
\* description renders as `    acctName: string; // description`
C8_AsStated ==
    (render.pc = "interface"
     /\ render.rows = <<<<"Fields">>, HeaderRowWithoutLabel, C8Row>>)
    => Occurs(C8Line, render.text)

\* C8: with the six-column header name, type, cardinality, label, required,
\* help the data row acctName, string, 0..1, Name, T, description makes
\* createInterface produce exactly the interface whose one field line is
\* `    acctName: string; // description`, with no optional marker
C8_FieldLine ==
    (render.pc = "interface"
     /\ render.rows = <<<<"Fields">>, LowerHeaderRow, C8Row>>)
    => render.text = <<"// ">> \o RenderLink \o <<"\n", "export interface ">>
                     \o render.fileName \o <<" {">> \o C8Line \o <<"}", "\n">>

C8_Witness ==
    /\ render.pc = "interface"
    /\ render.rows = <<<<"Fields">>, LowerHeaderRow, C8Row>>
    /\ Occurs(C8Line, render.text)

\* C9: the rendered field has no optional marker `?` after its name if and
\* only if the cell under the required column is exactly T or the minimum
\* of the cardinality cell is exactly 1
C9_OptionalMarker ==
    render.pc = "row" =>
        /\ SubSeq(render.fileRow, 1, 3) = <<"\n", "    ", "acctName">>
        /\ render.fileRow[4] \in {"?", ": "}
        /\ (render.fileRow[4] = ": ")
             <=> (CellOf(render.rows, <<"required">>) = <<"T">>
                  \/ CardinalityMinimum(render.rows) = <<"1">>)

\* required T with a minimum other than 1 is rendered without `?`
C9_Witness ==
    /\ render.pc = "row"
    /\ CellOf(render.rows, <<"required">>) = <<"T">>
    /\ CardinalityMinimum(render.rows) = <<"0">>
    /\ render.fileRow[4] = ": "

\* C10: a field of type double with cardinality 0..unbounded and an empty
\* required cell renders as `acctName?: number[];`; in every rendered field
\* the array marker `[]` stands between the mapped type and the `;` exactly
\* when the cardinality maximum is the token unbounded, whether or not the
\* optional marker is there
C10_ArrayMarker ==
    render.pc = "row" =>
        LET semicolon == IndexOf(render.fileRow, ";") + 1
            mapped == IF CellOf(render.rows, <<"type">>) \in
                            {<<"double">>, <<"int">>, <<"long">>} THEN <<"number">>
                      ELSE IF CellOf(render.rows, <<"type">>) = <<"dateTime">>
                      THEN <<"Date">>
                      ELSE CellOf(render.rows, <<"type">>)
            marked == render.fileRow[semicolon - 1] = "[]"
        IN /\ semicolon > 2
           /\ marked <=> CardinalityMaximum(render.rows) = <<"unbounded">>
           /\ \A i \in DOMAIN render.fileRow : render.fileRow[i] = "[]" => i = semicolon - 1
           /\ <<render.fileRow[semicolon - (IF marked THEN 2 ELSE 1)]>> = mapped
           /\ (/\ CellOf(render.rows, <<"type">>) = <<"double">>
               /\ CellOf(render.rows, <<"cardinality">>) = <<"0", "..", "unbounded">>
               /\ CellOf(render.rows, <<"required">>) = << >>)
              => SubSeq(render.fileRow, 1, semicolon) =
                   <<"\n", "    ", "acctName", "?", ": ", "number", "[]", ";">>

C10_Witness ==
    /\ render.pc = "row"
    /\ CellOf(render.rows, <<"type">>) = <<"double">>
    /\ CellOf(render.rows, <<"cardinality">>) = <<"0", "..", "unbounded">>
    /\ CellOf(render.rows, <<"required">>) = << >>
    /\ Occurs(<<"acctName", "?", ": ", "number", "[]", ";">>, render.fileRow)

\* the type as rendered in a field line: the atom after the first `: `
RenderedType(line) ==
    IF IndexOf(line, ": ") + 2 \in DOMAIN line
    THEN <<line[IndexOf(line, ": ") + 2]>> ELSE << >>

\* C21: the type cell dateTime is rendered as Date, the type cells double,
\* int and long are rendered as number, and every other type name is
\* rendered as it stands in the cell (names that differ from a mapped one
\* only in case, and names of Object.prototype members, included)
C21_TypeMapping ==
    render.pc \in {"row", "interface"} =>
        LET type == CellOf(render.rows, <<"type">>)
            rendered == RenderedType(IF render.pc = "row" THEN render.fileRow
                                     ELSE render.text)
        IN /\ type = <<"dateTime">> => rendered = <<"Date">>
           /\ type \in {<<"double">>, <<"int">>, <<"long">>} => rendered = <<"number">>
           /\ type \notin {<<"dateTime">>, <<"double">>, <<"int">>, <<"long">>}
                => rendered = type

\* a long field rendered as number within an interface
C21_Witness ==
    /\ render.pc = "interface"
    /\ CellOf(render.rows, <<"type">>) = <<"long">>
    /\ Occurs(<<"acctName", ": ", "number", ";">>, render.text)

(***************************************************************************)
(* Properties of main and the drivers (under Spec).                        *)
(***************************************************************************)
FullVersionFlags == {"createFilesForAllVersions", "createFilesForSingleVersion"}

\* C1: in full-version generation, whenever the rendering pass
\* (createFilesForVersion) of a version runs, the call main made just before
\* it was the table pass of that version under the same flag, and that pass
\* has visited every leaf page of the version, in order, and written the
\* table file; so no page is rendered before the version's table is complete
C1_TableBeforeRendering ==
    (drv.name = "createFilesForVersion" /\ drv.flag \in FullVersionFlags) =>
        /\ Len(calls) >= 2
        /\ calls[Len(calls)] = <<drv.flag, "createFilesForVersion", drv.version>>
        /\ calls[Len(calls) - 1] = <<drv.flag, "createFilePathObjectFile", drv.version>>
        /\ tableFile[drv.version] # ABSENT
        /\ tableLog[drv.version] = AllLeaves(drv.version)
        /\ drv.at \notin {"require"} => drv.filePaths # << >>

\* the rendering pass of the second version renders its first page
C1_Witness ==
    /\ drv.name = "createFilesForVersion"
    /\ drv.flag = "createFilesForAllVersions"
    /\ drv.version = Versions[2]
    /\ drv.at = "page"
    /\ drv.visited = <<AllLeaves(drv.version)[1]>>
    /\ tableLog[drv.version] = AllLeaves(drv.version)

\* C2: in the table pass and in the rendering pass an error thrown for one
\* leaf page never rejects the driver; after the loops every leaf page of
\* the version has been visited, the failed ones included, each page either
\* failed or was processed, and the table pass holds no line for a failed page
C2_PageFailureIsLocal ==
    /\ (proc = "rejected" => drv.at # "page")
    /\ (drv.name \in {"createFilePathObjectFile", "createFilesForVersion"}
        /\ drv.at \in {"write", "enum", "close", "return"}) =>
           /\ drv.visited = AllLeaves(drv.version)
           /\ \A i \in DOMAIN drv.failed :
                \E k \in DOMAIN drv.visited : drv.visited[k] = drv.failed[i]
           /\ drv.name = "createFilePathObjectFile" =>
                /\ Len(drv.fileContentLines) + Len(drv.failed) = Len(drv.visited)
                /\ \A i \in DOMAIN drv.failed :
                     \A k \in DOMAIN drv.fileContentLines :
                        drv.fileContentLines[k] #
                            TablePageResult(drv.version, drv.failed[i], drv.failed[i].tab)
           /\ drv.name = "createFilesForVersion" =>
                drv.fileCount + Len(drv.failed) = Len(drv.visited)

\* the first leaf page failed, and the table pass went on to the last one
C2_Witness ==
    /\ drv.name = "createFilePathObjectFile"
    /\ drv.at = "write"
    /\ drv.failed = <<AllLeaves(drv.version)[1]>>
    /\ drv.visited = AllLeaves(drv.version)
    /\ Len(drv.fileContentLines) = Len(drv.visited) - 1

\* C3: once an error has left a driver (the launch, link discovery or any
\* other step outside the per-page try block threw), the driver is not
\* resumed or retried, main makes no further call and nothing more is
\* written: the only step left is main's catch handler, which ends the
\* process with exit code 1
C3_FatalErrorEndsProcess ==
    [][(proc \in {"rejected", "exited"}) =>
          (/\ proc = "rejected"
           /\ proc' = "exited"
           /\ exitCode' = 1
           /\ UNCHANGED <<main, drv, calls, browser, tableFile, moduleCache, tree,
                          lastWrite, tableLog>>)]_vars

\* link discovery threw in the first version of the all-versions loop and
\* the process has exited with the second version never started
C3_Witness ==
    /\ proc = "exited"
    /\ exitCode = 1
    /\ drv.flag = "createFilesForAllVersions"
    /\ drv.version = Versions[1]
    /\ drv.at \in {"launch", "namespaceLinks", "leftDrawerLinks"}
    /\ \A i \in DOMAIN calls : calls[i][3] = Versions[1]

\* the flags in the order main tests them, as C4 lists them
FlagOrder ==
    <<"createFilesForAllVersions", "createFilesForSingleVersion",
      "createFilesForNamespace", "createSingleFile", "createFilePathObjectFile",
      "createIndexFilesForAllVersions", "createIndexFilesForSingleVersion",
      "fixImportsForAllVersions", "fixImportsForVersion">>

FlagRank(flag) == CHOOSE i \in DOMAIN FlagOrder : FlagOrder[i] = flag

\* C4: the calls main makes are ordered by the fixed order of their flags,
\* whatever flags are set; main makes a call only when no driver is running,
\* and the driver running is always the one of the last call
C4_FixedOrder ==
    /\ [](/\ \A i, j \in DOMAIN calls :
               i < j => FlagRank(calls[i][1]) <= FlagRank(calls[j][1])
          /\ \A i \in DOMAIN calls : calls[i][1] \in args.flags
          /\ drv.name # "none" =>
               /\ calls # << >>
               /\ calls[Len(calls)][2] = drv.name
               /\ calls[Len(calls)][1] = drv.flag)
    /\ [][(calls' # calls) => (drv.name = "none" /\ Len(calls') = Len(calls) + 1)]_vars

\* two flags are set and the driver of the later one runs after the
\* driver of the earlier one has returned
C4_Witness ==
    /\ args.flags = {"createFilesForAllVersions", "createFilesForSingleVersion"}
    /\ drv.flag = "createFilesForSingleVersion"
    /\ calls[1][1] = "createFilesForAllVersions"

\* C5 as stated: every call main makes for the flag
\* createIndexFilesForAllVersions is a call of createIndexFilesForVersion,
\* and no browser is launched for that flag
C5_AsStated ==
    /\ \A i \in DOMAIN calls :
         calls[i][1] = "createIndexFilesForAllVersions"
            => calls[i][2] = "createIndexFilesForVersion"
    /\ drv.flag = "createIndexFilesForAllVersions" => drv.launches = 0

C7_OneBrowserSession ==
    drv.name \in ScrapingDrivers =>
        /\ drv.launches <= 1
        /\ drv.closes <= drv.launches
        /\ ~browser.usedAfterClose
        /\ drv.at = "return" <=> drv.closes = 1
        /\ drv.at = "return" => drv.launches = 1 /\ ~browser.open
        /\ (drv.launches = 1 /\ drv.closes = 0) => browser.open

\* a driver returns after a page failure was caught, the browser closed
C7_Witness ==
    /\ drv.name \in ScrapingDrivers
    /\ drv.at = "return"
    /\ drv.failed # << >>
    /\ drv.launches = 1
    /\ drv.closes = 1
    /\ ~browser.open

(***************************************************************************)
(* The text functions on their own: createEnum, createInterface,           *)
(* replaceFullImports, createIndexFileContent, getPageContent and          *)
(* parseFolderContents applied to inputs drawn from bounded sets. The      *)
(* program is idle; `render` holds the input of one function and then its  *)
(* result.                                                                 *)
(***************************************************************************)
\* enum pages: every sequence of up to MaxEnumRows rows out of values with
\* and without separators, values that differ only in separators, and rows
\* made of separators only
EnumInputs ==
    LET EnumRowSet ==
            {<<"Value">>, <<"i", "n", "_", "a", "c", "t", "i", "v", "e">>,
             <<"i", "n", "a", "c", "t", "i", "v", "e">>, <<"_", "a">>, <<"a", "-", "b">>,
             <<"a", "_", "_", "b", "-">>, <<"A", "b">>, <<"_">>, <<"-", "_">>}
    IN {[pc |-> "enum", fileName |-> <<"AccountType">>, rows |-> rs, text |-> << >>] :
           rs \in UNION {[1..k -> EnumRowSet] : k \in 0..MaxEnumRows}}

\* createEnum(leftDrawerLink, fileName, rows)
RunCreateEnum ==
    /\ render.pc = "enum"
    /\ render' = [render EXCEPT !.pc = "enumDone",
                                !.text = CreateEnum(RenderLink, render.fileName,
                                                    render.rows)]
    /\ UNCHANGED drvVars

\* the folder of a namespace below the folder of the first version
NamespaceDir(top, sub) == <<"/", top, "/", sub, "_", Versions[1]>>

\* a file-path table as the table pass writes it and require loads it: the
\* enum of one namespace and declarations of three tabs of another, so that
\* the order of the paths is not the order of the type names
PageFilePaths ==
    LoadFilePaths(SortLines(
        <<TableLine(TypeName("enum", 1, 1),
                    <<"src", "/", Versions[1]>> \o NamespaceDir("setup", "customization")),
          TableLine(TypeName("other", 1, 1),
                    <<"src", "/", Versions[1]>> \o NamespaceDir("lists", "accounting")
                    \o <<"/", "Other">>),
          TableLine(TypeName("other", 1, 2),
                    <<"src", "/", Versions[1]>> \o NamespaceDir("lists", "accounting")
                    \o <<"/", "Other">>),
          TableLine(TypeName("record", 1, 1),
                    <<"src", "/", Versions[1]>> \o NamespaceDir("lists", "accounting")
                    \o <<"/", "Record">>),
          TableLine(TypeName("search", 1, 1),
                    <<"src", "/", Versions[1]>> \o NamespaceDir("lists", "accounting")
                    \o <<"/", "Search">>)>>))

\* pages for createInterface: rows before the first marker (none, or the
\* row `before`), then the markers, each at most once and in any order,
\* each followed by the rows of its section. A section holds nothing, a
\* header only, a header and data rows (types with and without a table
\* entry, one type used twice, one row twice), a second marker row among
\* the data rows, or data rows without a header row. A data row is name,
\* type, cardinality 0..1, label, required F, no help.
PageInputs ==
    LET PageRow(name, type) ==
            <<name, "\t">> \o type \o <<"\t", "0", "..", "1", "\t", "Label", "\t", "F">>
        FieldsContents ==
            {<< >>, <<HeaderRow>>,
             <<HeaderRow, PageRow("internalId", <<"string">>)>>,
             <<HeaderRow, PageRow("ref", TypeName("search", 1, 1)),
               PageRow("kind", TypeName("enum", 1, 1))>>,
             <<LowerHeaderRow, PageRow("ref", TypeName("search", 1, 1)),
               PageRow("owner", TypeName("other", 1, 1)),
               PageRow("kind", TypeName("enum", 1, 1)),
               PageRow("ref2", TypeName("search", 1, 1))>>,
             <<HeaderRow, PageRow("internalId", <<"string">>), <<"Fields">>,
               PageRow("internalId", <<"string">>)>>,
             <<PageRow("internalId", <<"string">>),
               PageRow("ref", TypeName("search", 1, 1))>>}
        AttributesContents ==
            {<< >>,
             <<HeaderRow, PageRow("owner", TypeName("other", 1, 1))>>,
             <<HeaderRow, PageRow("ref2", TypeName("search", 1, 1)),
               PageRow("internalId", <<"string">>)>>,
             <<LowerHeaderRow, PageRow("kind", TypeName("enum", 1, 1)),
               PageRow("kind", TypeName("enum", 1, 1))>>}
        RelatedContents ==
            {<< >>, <<HeaderRow, PageRow("related", TypeName("record", 1, 1))>>}
        Preambles == {<< >>, <<PageRow("before", TypeName("other", 1, 2))>>}
        SectionLayouts ==
            {l \in UNION {[1..k -> {SectionNames[m] : m \in 1..4}] : k \in 0..4} :
                \A i, j \in DOMAIN l : i # j => l[i] # l[j]}
        PageRowsOf(preamble, layout, contents) ==
            preamble
            \o Flatten([k \in DOMAIN layout |-> <<layout[k]>> \o contents[layout[k]]])
    IN {[pc |-> "input", filePaths |-> PageFilePaths, fileName |-> <<"Account">>,
         rows |-> PageRowsOf(pre, l, (<<"Attributes">> :> ca) @@ (<<"Fields">> :> cf)
                                     @@ (<<"Related Record(s)">> :> cr)
                                     @@ (<<"Related Searches">> :> cs)),
         text |-> << >>, fileRow |-> << >>] :
           pre \in Preambles, l \in SectionLayouts, ca \in AttributesContents,
           cf \in FieldsContents, cr \in RelatedContents, cs \in RelatedContents}

\* files for replaceFullImports. Importing files: a declaration in a tab
\* folder, a declaration in the namespace folder, the FilePath enum of the
\* version, and a declaration of a project that is itself kept in a folder
\* called src. Imported paths, as the file-path table holds them: in the
\* folder of the importing declaration, in another tab folder, in the
\* namespace folder, in another namespace, in another version, one folder
\* deeper, the importing declaration itself, and a folder above it. Lines:
\* the import lines createFileRow writes for these paths, a comment, a
\* line of an interface, an import that is relative already, an import
\* after other text in its line, and an import of a path with a character
\* the regex does not allow. A content is up to MaxContentLines lines.
ImportInputs ==
    LET ImportingFiles ==
            {VersionFolder(Versions[1]) \o NamespaceDir("lists", "accounting")
                \o <<"/", "Record", "/", "Record", "1", "1", ".ts">>,
             VersionFolder(Versions[1]) \o NamespaceDir("lists", "accounting")
                \o <<"/", "Enum", "1", "1", ".ts">>,
             FilePathEnumFile(Versions[1]),
             <<"src", "/">> \o VersionFolder(Versions[1])
                \o NamespaceDir("lists", "accounting")
                \o <<"/", "Record", "/", "Record", "1", "1", ".ts">>}
        ImportedPaths ==
            {<<"src", "/", Versions[1]>> \o NamespaceDir("lists", "accounting")
                \o <<"/", "Record", "/", "Record", "1", "2">>,
             <<"src", "/", Versions[1]>> \o NamespaceDir("lists", "accounting")
                \o <<"/", "Other", "/", "Other", "1", "1">>,
             <<"src", "/", Versions[1]>> \o NamespaceDir("lists", "accounting")
                \o <<"/", "Enum", "1", "2">>,
             <<"src", "/", Versions[1]>> \o NamespaceDir("platform", "core")
                \o <<"/", "Record", "/", "Record", "1", "2">>,
             <<"src", "/", Versions[1]>> \o NamespaceDir("platform", "core")
                \o <<"/", "Enum", "1", "2">>,
             <<"src", "/", AllVersions[2]>> \o NamespaceDir("lists", "accounting")
                \o <<"/", "Record", "/", "Record", "1", "2">>,
             <<"src", "/", Versions[1]>> \o NamespaceDir("lists", "accounting")
                \o <<"/", "Record", "/", "Sub", "/", "Record", "1", "2">>,
             <<"src", "/", Versions[1]>> \o NamespaceDir("lists", "accounting")
                \o <<"/", "Record", "/", "Record", "1", "1">>,
             <<"src", "/", Versions[1], "/", "lists">>}
        ImportLineOf(path) ==
            <<"import type { ", "Record", "1", "2", " } from '">> \o path \o <<"';">>
        ContentLines ==
            {ImportLineOf(p) : p \in ImportedPaths}
            \cup {<<"// ">> \o RenderLink,
                  <<"    ", "ref", "?", ": ", "Record", "1", "2", ";">>,
                  <<"import type { ", "Record", "1", "2", " } from '", ".", "/",
                    "Record", "1", "2", "';">>,
                  <<"// ">>
                    \o ImportLineOf(<<"src", "/", Versions[1], "/", "Record", "1", "2">>),
                  ImportLineOf(<<"src", "/", Versions[1], "/", "Record", "1", "2",
                                 ".ts">>)}
    IN {[pc |-> "imports", filePath |-> p, fileContent |-> Join(ls, <<"\n">>),
         before |-> << >>, text |-> Join(ls, <<"\n">>)] :
           p \in ImportingFiles,
           ls \in UNION {[1..k -> ContentLines] : k \in 0..MaxContentLines}}

\* replaceFullImports(filePath, fileContent) on the content as it is now:
\* on the file's content, and once more on what that call returned
RunReplaceFullImports ==
    /\ render.pc \in {"imports", "rewritten"}
    /\ render' = [render EXCEPT !.pc = IF render.pc = "imports" THEN "rewritten"
                                       ELSE "rewrittenTwice",
                                !.before = render.text,
                                !.text = ReplaceFullImports(render.filePath, render.text)]
    /\ UNCHANGED drvVars

\* folder listings for parseFolderContents and createIndexFileContent: the
\* names readdir returns for a folder of the generated tree, declaration
\* files, an index file and folders, each name once, in any order
IndexInputs ==
    {[pc |-> "listing", contents |-> c, text |-> << >>] :
        c \in {l \in UNION {[1..k -> {<<"A", ".ts">>, <<"B", ".ts">>, <<"index", ".ts">>,
                                       <<"C">>, <<"lists">>}] : k \in 0..MaxEntries} :
                 \A i, j \in DOMAIN l : i # j => l[i] # l[j]}}

\* the content createIndexFilesForVersion writes to the index.ts of a folder
\* from the folder's listing: the files, then the folders
RunCreateIndexFileContent ==
    /\ render.pc = "listing"
    /\ render' = [render EXCEPT
                    !.pc = "indexed",
                    !.text = CreateIndexFileContent(
                                 ParseFolderContents(render.contents).files
                                 \o ParseFolderContents(render.contents).folders)]
    /\ UNCHANGED drvVars

\* content panels for getPageContent: a title line, an identifier line and
\* up to two rows, with a blank line (empty or of spaces) or none before,
\* between and after them; the identifiers are URNs of two and of three
\* segments before `webservices`, alone or after the label `Namespace: `,
\* one with text after `com`
PanelInputs ==
    LET Urn(package) ==
            <<"urn:">> \o package
            \o <<".", "webservices", ".", "netsuite", ".", "com">>
        Identifiers ==
            {Urn(<<"accounting", "_", "2014_1", ".", "lists">>),
             <<"Namespace: ">> \o Urn(<<"accounting", "_", "2014_1", ".", "lists">>),
             <<"Namespace: ">> \o Urn(<<"types", ".", "common", "_", "2014_1", ".",
                                        "platform">>),
             <<"Namespace: ">> \o Urn(<<"com", "_", "2014_1", ".", "lists">>)
             \o <<" ", "(", "x", ")">>}
        Blanks == {<< >>, <<<< >>>>, <<<<" ", " ">>>>}
        RowLists == {<< >>, <<<<"Fields">>>>, <<<<"Value">>, <<"_", "a">>>>}
    IN {[pc |-> "panel",
         lines |-> b[1] \o <<<<"Account">>>> \o b[2] \o <<id>> \o b[3]
                   \o (IF rs = << >> THEN << >> ELSE <<Head(rs)>>) \o b[4]
                   \o (IF rs = << >> THEN << >> ELSE Tail(rs)) \o b[5],
         folder |-> RootNetSuiteTypesFolder(Versions[1]),
         content |-> << >>] :
           b \in [1..5 -> Blanks], id \in Identifiers, rs \in RowLists}

\* getPageContent(page, rootNetSuiteTypesFolder) on a content panel
RunGetPageContent ==
    /\ render.pc = "panel"
    /\ render' = [render EXCEPT !.pc = "content",
                                !.content = GetPageContent(render.lines, render.folder)]
    /\ UNCHANGED drvVars

\* folder listings for parseFolderContents with entries of any kind: a
\* declaration file, the index file, a folder, and files whose names hold
\* `.ts` without ending in it or hold another extension
EntryInputs ==
    {[pc |-> "entries", contents |-> c, parsed |-> [files |-> << >>, folders |-> << >>]] :
        c \in {l \in UNION {[1..k -> {<<"A", ".ts">>, <<"index", ".ts">>, <<"C">>,
                                       <<"A", ".tsx">>, <<"A", ".ts", ".bak">>,
                                       <<"notes", ".", "txt">>}] : k \in 0..MaxEntries} :
                 \A i, j \in DOMAIN l : i # j => l[i] # l[j]}}

\* parseFolderContents(contents)
RunParseFolderContents ==
    /\ render.pc = "entries"
    /\ render' = [render EXCEPT !.pc = "parsed",
                                !.parsed = ParseFolderContents(render.contents)]
    /\ UNCHANGED drvVars

InitText ==
    /\ args = [flags |-> {}, netsuiteVersion |-> "", namespaceLink |-> Blank,
               link |-> Blank]
    /\ main = [block |-> 1, vi |-> 1, call |-> 1]
    /\ proc = "running"
    /\ exitCode = -1
    /\ drv = NoDriver
    /\ browser = [open |-> FALSE, page |-> Blank, usedAfterClose |-> FALSE]
    /\ tableFile = [v \in VersionSet |-> ABSENT]
    /\ tree = << >>
    /\ moduleCache = [v \in VersionSet |-> ABSENT]
    /\ lastWrite = NoWrite
    /\ calls = << >>
    /\ tableLog = [v \in VersionSet |-> ABSENT]
    /\ pageFailures = 0
    /\ render \in EnumInputs \cup PageInputs \cup ImportInputs \cup IndexInputs
                  \cup PanelInputs \cup EntryInputs

NextText ==
    \/ RunCreateEnum
    \/ RunCreateInterface
    \/ RunReplaceFullImports
    \/ RunCreateIndexFileContent
    \/ RunGetPageContent
    \/ RunParseFolderContents

SpecText == InitText /\ [][NextText]_vars

(***************************************************************************)
(* Properties of createEnum (under SpecText).                              *)
(***************************************************************************)
\* the lines of an enum's text, and the member name and the literal value
\* of a member line `    Name = 'value',`
EnumLines(text) == Split(text, "\n")
MemberName(line) == SubSeq(line, 2, IndexOf(line, " = '"))
MemberValue(line) == SubSeq(line, IndexOf(line, " = '") + 2, Len(line) - 1)

\* the rows after the first one
RowsAfterFirst(rows) == IF rows = << >> THEN << >> ELSE Tail(rows)

\* every row after the first has a character other than `_` and `-`
EnumRowsHaveNames(rows) ==
    \A i \in DOMAIN rows : i > 1 => \E k \in DOMAIN rows[i] : rows[i][k] \notin {"_", "-"}

\* C11: the text createEnum returns is the comment line, the line
\* `export enum <fileName> {`, then one member line per row after the first
\* one, line i holding the text of row i+1 as its value, then the closing
\* brace: the first row is dropped and no other row is dropped, moved,
\* merged or repeated. createEnum returns a text whenever every row after
\* the first has a character other than `_` and `-`.
C11_MembersMirrorRows ==
    render.pc = "enumDone" =>
        /\ EnumRowsHaveNames(render.rows) => render.text # THROWN
        /\ render.text # THROWN =>
             LET lines == EnumLines(render.text)
                 rest == RowsAfterFirst(render.rows)
             IN /\ Len(lines) = Len(rest) + 4
                /\ lines[1] = <<"// ">> \o RenderLink
                /\ lines[2] = <<"export enum ">> \o render.fileName \o <<" {">>
                /\ \A i \in DOMAIN rest :
                     /\ lines[i + 2][1] = "    "
                     /\ lines[i + 2][Len(lines[i + 2])] = "',"
                     /\ MemberValue(lines[i + 2]) = rest[i]
                /\ lines[Len(rest) + 3] = <<"}">>
                /\ lines[Len(rest) + 4] = << >>

\* three rows, the first of them not the `Value` heading and equal to a
\* later row: two members, in the order of rows two and three
C11_Witness ==
    /\ render.pc = "enumDone"
    /\ render.rows = <<<<"A", "b">>, <<"a", "-", "b">>, <<"A", "b">>>>
    /\ render.text # THROWN
    /\ MemberValue(EnumLines(render.text)[3]) = <<"a", "-", "b">>
    /\ MemberValue(EnumLines(render.text)[4]) = <<"A", "b">>

\* the positions of a row that hold a character other than `_` and `-`, and
\* the k-th of them
KeptPositions(row) == {k \in DOMAIN row : row[k] \notin {"_", "-"}}
KeptPosition(row, k) ==
    CHOOSE p \in KeptPositions(row) : Cardinality({q \in KeptPositions(row) : q < p}) = k - 1

\* the row without `_` and `-`, its first character in upper case
ExpectedMemberName(row) ==
    [k \in 1..Cardinality(KeptPositions(row)) |->
        IF k = 1 THEN UpperAtom(row[KeptPosition(row, 1)])
        ELSE row[KeptPosition(row, k)]]

\* C12: in the text createEnum returns, the member made from a row has as
\* its name the row with every `_` and `-` removed and the first remaining
\* character in upper case, every other character as it is, and as its
\* literal the row's text unchanged, between single quotes
C12_MemberNameAndValue ==
    (render.pc = "enumDone" /\ render.text # THROWN) =>
        \A i \in DOMAIN RowsAfterFirst(render.rows) :
            LET row == render.rows[i + 1]
                line == EnumLines(render.text)[i + 2]
            IN /\ MemberName(line) = ExpectedMemberName(row)
               /\ MemberValue(line) = row
               /\ line = <<"    ">> \o ExpectedMemberName(row) \o <<" = '">> \o row
                         \o <<"',">>

\* row `in_active` gives the member `Inactive = 'in_active',`
C12_Witness ==
    /\ render.pc = "enumDone"
    /\ render.rows = <<<<"Value">>, <<"i", "n", "_", "a", "c", "t", "i", "v", "e">>>>
    /\ EnumLines(render.text)[3]
         = <<"    ", "I", "n", "a", "c", "t", "i", "v", "e", " = '",
             "i", "n", "_", "a", "c", "t", "i", "v", "e", "',">>

\* C30 as stated: createEnum returns a text for every list of rows, rows
\* made only of `_` and `-` included, and in the text it returns two members
\* made from different rows never have the same name
C30_AsStated ==
    render.pc = "enumDone" =>
        /\ render.text # THROWN
        /\ \A i, j \in DOMAIN RowsAfterFirst(render.rows) :
              RowsAfterFirst(render.rows)[i] # RowsAfterFirst(render.rows)[j]
                 => MemberName(EnumLines(render.text)[i + 2])
                      # MemberName(EnumLines(render.text)[j + 2])

(***************************************************************************)
(* Properties of createInterface (under SpecText). The sections are read   *)
(* from the page's rows and the declarations from the lines of the         *)
(* returned text.                                                          *)
(***************************************************************************)
\* the position of the first row equal to the marker, 0 when there is none
MarkerAt(rows, marker) ==
    IF \E i \in DOMAIN rows : rows[i] = marker
    THEN CHOOSE i \in DOMAIN rows : rows[i] = marker /\ \A j \in 1..(i - 1) : rows[j] # marker
    ELSE 0

\* the first positions of the markers the page has
MarkerPositions(rows) ==
    {MarkerAt(rows, SectionNames[k]) : k \in 1..4} \ {0}

\* the rows strictly after the marker and strictly before the next marker
\* position (to the end when no marker position follows)
RowsBelow(rows, marker) ==
    LET start == MarkerAt(rows, marker)
        later == {p \in MarkerPositions(rows) : p > start}
        end == IF later = {} THEN Len(rows)
               ELSE (CHOOSE p \in later : \A q \in later : p <= q) - 1
    IN IF start = 0 THEN << >> ELSE SubSeq(rows, start + 1, end)

\* the rows below the marker without the first of them, the header
DataRowsBelow(rows, marker) ==
    IF RowsBelow(rows, marker) = << >> THEN << >> ELSE Tail(RowsBelow(rows, marker))

\* the cell of a data row under the last header column with the given name
\* in any case, 'undefined' when the header has no such column
ColumnCell(header, row, column) ==
    LET columns == Split(header, "\t")
        cells == Split(row, "\t")
        at == {i \in DOMAIN cells : i \in DOMAIN columns
                                      /\ ToLowerCase(columns[i]) = column}
    IN IF at = {} THEN <<"undefined">>
       ELSE cells[CHOOSE i \in at : \A j \in at : j <= i]

NameCell(header, row) == ColumnCell(header, row, <<"name">>)

\* the names the data rows below the marker declare, in row order
DeclaredNames(rows, marker) ==
    [i \in DOMAIN DataRowsBelow(rows, marker) |->
        NameCell(Head(RowsBelow(rows, marker)), DataRowsBelow(rows, marker)[i])]

\* the lines of the text between the line `export interface <name> {` and
\* the next line `}`; << >> when the text has no such interface
InterfaceBody(text, name) ==
    LET lines == Split(text, "\n")
        opens == {i \in DOMAIN lines : lines[i] = <<"export interface ">> \o name \o <<" {">>}
    IN IF opens = {} THEN << >>
       ELSE LET open == CHOOSE i \in opens : \A j \in opens : i <= j
                close == CHOOSE i \in DOMAIN lines :
                             /\ i > open
                             /\ lines[i] = <<"}">>
                             /\ \A j \in (open + 1)..(i - 1) : lines[j] # <<"}">>
            IN SubSeq(lines, open + 1, close - 1)

\* the lines of the primary interface below its `attributes` field and the
\* empty line that follows it
FieldLines(text, fileName, hasAttributes) ==
    IF hasAttributes
    THEN SubSeq(InterfaceBody(text, fileName), 3, Len(InterfaceBody(text, fileName)))
    ELSE InterfaceBody(text, fileName)

\* the name a declaration line `    name?: type;` declares
DeclarationNames(lines) ==
    [i \in DOMAIN lines |-> IF Len(lines[i]) >= 2 THEN <<lines[i][2]>> ELSE << >>]

\* C13: the declarations of the primary interface are, in this order, one
\* per data row of the `Fields` section in row order, and the declarations
\* of the nested attributes interface are one per data row of the
\* `Attributes` section in row order
C13_DeclarationsInRowOrder ==
    render.pc = "interface" =>
        /\ DeclarationNames(FieldLines(render.text, render.fileName,
                                       MarkerAt(render.rows, <<"Attributes">>) # 0))
             = DeclaredNames(render.rows, <<"Fields">>)
        /\ DeclarationNames(InterfaceBody(render.text, render.fileName \o <<"Attributes">>))
             = DeclaredNames(render.rows, <<"Attributes">>)

\* four field rows and two attribute rows, `Attributes` below `Fields`
C13_Witness ==
    /\ render.pc = "interface"
    /\ MarkerAt(render.rows, <<"Fields">>) = 1
    /\ MarkerAt(render.rows, <<"Attributes">>) = 7
    /\ DeclaredNames(render.rows, <<"Fields">>)
         = <<<<"ref">>, <<"owner">>, <<"kind">>, <<"ref2">>>>
    /\ DeclarationNames(FieldLines(render.text, render.fileName, TRUE))
         = <<<<"ref">>, <<"owner">>, <<"kind">>, <<"ref2">>>>
    /\ DeclarationNames(InterfaceBody(render.text, render.fileName \o <<"Attributes">>))
         = <<<<"ref2">>, <<"internalId">>>>

(***************************************************************************)
(* Properties of replaceFullImports (under SpecText).                      *)
(***************************************************************************)
\* the path of an import line starts with `.` or `..`
IsRelativeImport(line) ==
    \E i \in DOMAIN line :
        line[i] = " } from '" /\ i < Len(line) /\ line[i + 1] \in {".", ".."}

RECURSIVE ResolveParts(_, _)
ResolveParts(folderParts, relativeParts) ==
    IF relativeParts = << >> THEN folderParts
    ELSE IF Head(relativeParts) = <<".">>
    THEN ResolveParts(folderParts, Tail(relativeParts))
    ELSE IF Head(relativeParts) = <<"..">>
    THEN ResolveParts(SubSeq(folderParts, 1, Len(folderParts) - 1), Tail(relativeParts))
    ELSE ResolveParts(Append(folderParts, Head(relativeParts)), Tail(relativeParts))

\* the segments of the folder of a file, from the project's `src` on
FolderParts(filePath) ==
    LET parts == Split(SliceFrom(filePath, IndexOfSrc(filePath)), "/")
    IN SubSeq(parts, 1, Len(parts) - 1)

\* the path of an import line: what stands between `from '` and `';`
ImportPathOf(line) ==
    SubSeq(line, IndexOf(line, " } from '") + 2, Len(line) - 1)

\* C15 as stated: for an importing file below the project's src folder,
\* every rewritten import path, resolved against the folder of the
\* importing file, is the path that was imported, whatever the depths of
\* the two files
C15_AsStated ==
    (render.pc = "rewritten" /\ render.filePath[1] # "src") =>
        \A i \in DOMAIN Split(render.fileContent, "\n") :
            MatchImport(Split(render.fileContent, "\n")[i]).matched =>
                ResolveParts(FolderParts(render.filePath),
                             Split(ImportPathOf(Split(render.text, "\n")[i]), "/"))
                  = Split(MatchImport(Split(render.fileContent, "\n")[i]).importPath, "/")

(***************************************************************************)
(* Properties of the index synthesis (under SpecText).                     *)
(***************************************************************************)
\* the names of a listing that end in `.ts`, index.ts left out, without the
\* extension, and the names without any extension
ListedFiles(contents) ==
    LET ts == SelectSeq(contents, LAMBDA n : n[Len(n)] = ".ts" /\ n # <<"index", ".ts">>)
    IN [i \in DOMAIN ts |-> SubSeq(ts[i], 1, Len(ts[i]) - 1)]

ListedFolders(contents) ==
    SelectSeq(contents, LAMBDA n : \A k \in DOMAIN n : n[k] \notin DotAtoms)

ExportLine(name) == <<"export * from './">> \o name \o <<"';">>

\* C16: for a listing of declaration files, an index file and folders, the
\* index content is one line `export * from './<name>';` per `.ts` file
\* other than index.ts, named without its extension, in listing order, then
\* one line per folder in listing order, and nothing else; no line names
\* `index`
C16_IndexExports ==
    render.pc = "indexed" =>
        /\ render.text
             = Join([i \in DOMAIN (ListedFiles(render.contents)
                                   \o ListedFolders(render.contents)) |->
                        ExportLine((ListedFiles(render.contents)
                                    \o ListedFolders(render.contents))[i])], <<"\n">>)
        /\ ~Occurs(ExportLine(<<"index">>), render.text)
        /\ \A i \in DOMAIN render.text : render.text[i] # "index"

\* the folder holding C, index.ts, B.ts and A.ts, listed in this order, gets
\* the lines for B, A and C
C16_Witness ==
    /\ render.pc = "indexed"
    /\ render.contents = <<<<"C">>, <<"index", ".ts">>, <<"B", ".ts">>, <<"A", ".ts">>>>
    /\ render.text = ExportLine(<<"B">>) \o <<"\n">> \o ExportLine(<<"A">>) \o <<"\n">>
                     \o ExportLine(<<"C">>)

\* the number of leading positions at which the two lists of segments hold
\* the same segment
EqualLead(fileParts, importParts) ==
    CHOOSE n \in 0..Len(importParts) :
        /\ \A k \in 1..n : k \in DOMAIN fileParts /\ fileParts[k] = importParts[k]
        /\ n < Len(importParts) =>
             ~(n + 1 \in DOMAIN fileParts /\ fileParts[n + 1] = importParts[n + 1])

\* C17: the path of a rewritten import is made of the import path's segments
\* from the first position at which they differ from the segments of the
\* importing file's path (taken from its first `src/`), every segment from
\* there on kept, after one `..` for each kept segment except the last, or
\* after a single `.` when there is no `..`
C17_RelativePathShape ==
    render.pc = "rewritten" =>
        \A i \in DOMAIN Split(render.fileContent, "\n") :
            MatchImport(Split(render.fileContent, "\n")[i]).matched =>
                LET importParts ==
                        Split(MatchImport(Split(render.fileContent, "\n")[i]).importPath, "/")
                    fileParts ==
                        Split(SliceFrom(render.filePath, IndexOfSrc(render.filePath)), "/")
                    kept == SubSeq(importParts, EqualLead(fileParts, importParts) + 1,
                                   Len(importParts))
                    ups == IF Len(kept) > 1 THEN Len(kept) - 1 ELSE 0
                IN Split(ImportPathOf(Split(render.text, "\n")[i]), "/")
                     = (IF ups = 0 THEN <<<<".">>>> ELSE [k \in 1..ups |-> <<"..">>]) \o kept

\* an import from another version with the same folders below it: the
\* segments after the first unequal one are kept although they are equal
C17_Witness ==
    /\ render.pc = "rewritten"
    /\ render.filePath[1] # "src"
    /\ MatchImport(render.fileContent).matched
    /\ MatchImport(render.fileContent).importPath
         = <<"src", "/", AllVersions[2]>> \o NamespaceDir("lists", "accounting")
           \o <<"/", "Record", "/", "Record", "1", "2">>
    /\ ImportPathOf(render.text)
         = <<"..", "/", "..", "/", "..", "/", "..", "/", AllVersions[2]>>
           \o NamespaceDir("lists", "accounting") \o <<"/", "Record", "/", "Record", "1", "2">>

\* the lines createFileRow gives for the data rows below the marker, under
\* the column names of the first row below the marker
RenderedLines(filePaths, rows, marker) ==
    [i \in DOMAIN DataRowsBelow(rows, marker) |->
        Tail(CreateFileRow(filePaths, SectionColumnNames(RowsBelow(rows, marker)),
                           DataRowsBelow(rows, marker)[i]).fileRow)]

\* C18: a section is the rows strictly after the first row equal to its
\* marker and strictly before the next first marker position (to the end
\* when there is none); its first row gives the column names and is not
\* rendered; the declarations of the primary interface are the renderings
\* of the other rows of `Fields`, those of the nested interface the
\* renderings of the other rows of `Attributes`; a row before the first
\* marker, a header row, and a row of `Related Record(s)` or `Related
\* Searches` is rendered nowhere in the text
C18_SectionsByMarkers ==
    render.pc = "interface" =>
        /\ FieldLines(render.text, render.fileName,
                      MarkerAt(render.rows, <<"Attributes">>) # 0)
             = RenderedLines(render.filePaths, render.rows, <<"Fields">>)
        /\ InterfaceBody(render.text, render.fileName \o <<"Attributes">>)
             = RenderedLines(render.filePaths, render.rows, <<"Attributes">>)
        /\ \A i \in DOMAIN render.text :
              render.text[i] \notin {"before", "related", "Name", "name", "Label", "label"}
        /\ ~Occurs(TypeName("other", 1, 2), render.text)
        /\ ~Occurs(TypeName("record", 1, 1), render.text)

\* a row before the first marker, `Related Searches` with a row between
\* `Fields` and `Attributes`, `Related Record(s)` with a row at the end:
\* two fields and one attribute are declared
C18_Witness ==
    /\ render.pc = "interface"
    /\ Len(render.rows) = 14
    /\ Split(render.rows[1], "\t")[1] = <<"before">>
    /\ MarkerAt(render.rows, <<"Fields">>) = 2
    /\ MarkerAt(render.rows, <<"Related Searches">>) = 6
    /\ MarkerAt(render.rows, <<"Attributes">>) = 9
    /\ MarkerAt(render.rows, <<"Related Record(s)">>) = 12
    /\ DeclarationNames(FieldLines(render.text, render.fileName, TRUE))
         = <<<<"ref">>, <<"kind">>>>
    /\ DeclarationNames(InterfaceBody(render.text, render.fileName \o <<"Attributes">>))
         = <<<<"owner">>>>

\* the lines of the text that are import lines
ImportLineNumbers(lines) ==
    {i \in DOMAIN lines : lines[i] # << >> /\ lines[i][1] = "import type { "}

\* C19: the lines of the text are, in this order: the import lines and one
\* empty line (only when there is an import line), the comment line with
\* the source URL, the opening line of the primary interface, the field
\* `attributes: <TypeName>Attributes` and an empty line (exactly when the
\* page has an `Attributes` marker, wherever it stands), the declarations
\* of `Fields`, the closing brace, and (exactly when the page has an
\* `Attributes` marker) an empty line, the opening line of the interface
\* <TypeName>Attributes, the declarations of `Attributes` and the closing
\* brace
C19_EmissionOrder ==
    render.pc = "interface" =>
        LET lines == Split(render.text, "\n")
            n == Cardinality(ImportLineNumbers(lines))
            hasAttributes == MarkerAt(render.rows, <<"Attributes">>) # 0
        IN /\ ImportLineNumbers(lines) = 1..n
           /\ lines
                = SubSeq(lines, 1, n)
                  \o (IF n > 0 THEN <<<< >>>> ELSE << >>)
                  \o <<<<"// ">> \o RenderLink,
                       <<"export interface ">> \o render.fileName \o <<" {">>>>
                  \o (IF hasAttributes
                      THEN <<<<"    ", "attributes", ": ">> \o render.fileName
                               \o <<"Attributes", ";">>,
                             << >>>>
                      ELSE << >>)
                  \o RenderedLines(render.filePaths, render.rows, <<"Fields">>)
                  \o <<<<"}">>>>
                  \o (IF hasAttributes
                      THEN <<<< >>, <<"export interface ">> \o render.fileName
                                      \o <<"Attributes", " {">>>>
                           \o RenderedLines(render.filePaths, render.rows, <<"Attributes">>)
                           \o <<<<"}">>>>
                      ELSE << >>)
                  \o <<<< >>>>

\* `Attributes` below `Fields`, both with rows whose types are imported:
\* the `attributes` field is in the line after the opening line all the same
C19_Witness ==
    /\ render.pc = "interface"
    /\ MarkerAt(render.rows, <<"Fields">>) = 1
    /\ MarkerAt(render.rows, <<"Attributes">>) = 5
    /\ Len(render.rows) = 7
    /\ Cardinality(ImportLineNumbers(Split(render.text, "\n"))) = 3
    /\ Split(render.text, "\n")[7]
         = <<"    ", "attributes", ": ">> \o render.fileName \o <<"Attributes", ";">>
    /\ DeclarationNames(FieldLines(render.text, render.fileName, TRUE))
         = <<<<"ref">>, <<"kind">>>>

\* the type names, after netSuiteTypeMapping, of the data rows below the
\* marker
TypesBelow(rows, marker) ==
    {PropType(ColumnCell(Head(RowsBelow(rows, marker)),
                         DataRowsBelow(rows, marker)[i], <<"type">>)) :
        i \in DOMAIN DataRowsBelow(rows, marker)}

\* the types of the rendered fields that are keys of the file-path table
ImportedTypes(filePaths, rows) ==
    (TypesBelow(rows, <<"Attributes">>) \cup TypesBelow(rows, <<"Fields">>))
    \cap DOMAIN filePaths

\* C20: the import lines of the text are, as a set, the lines
\* `import type { <type> } from '<table path of the type>';` of the types
\* of the rendered fields of `Attributes` and `Fields` that are keys of the
\* file-path table; there are as many import lines as such types, so each
\* type has one line however many fields use it; and the table paths of the
\* import lines ascend from line to line in the order of localeCompare
C20_ImportsOfRenderedTypes ==
    render.pc = "interface" =>
        LET lines == Split(render.text, "\n")
            imports == ImportLineNumbers(lines)
            types == ImportedTypes(render.filePaths, render.rows)
        IN /\ {lines[i] : i \in imports}
                = {<<"import type { ">> \o t \o <<" } from '">> \o render.filePaths[t]
                   \o <<"';">> : t \in types}
           /\ Cardinality(imports) = Cardinality(types)
           /\ \A i, j \in imports :
                 i < j => LocaleLess(ImportPathOf(lines[i]), ImportPathOf(lines[j]))

\* fields of the types Search11, Other11, Enum11 and Search11 again: three
\* import lines, in the order of the paths lists/.../Other/Other11,
\* lists/.../Search/Search11, setup/.../Enum11, which is neither the order
\* of the fields nor the order of the type names
C20_Witness ==
    /\ render.pc = "interface"
    /\ Len(render.rows) = 6
    /\ MarkerAt(render.rows, <<"Fields">>) = 1
    /\ [i \in 1..4 |-> ColumnCell(render.rows[2], render.rows[i + 2], <<"type">>)]
         = <<TypeName("search", 1, 1), TypeName("other", 1, 1), TypeName("enum", 1, 1),
             TypeName("search", 1, 1)>>
    /\ SubSeq(Split(render.text, "\n"), 1, 4)
         = <<<<"import type { ">> \o TypeName("other", 1, 1) \o <<" } from '">>
               \o render.filePaths[TypeName("other", 1, 1)] \o <<"';">>,
             <<"import type { ">> \o TypeName("search", 1, 1) \o <<" } from '">>
               \o render.filePaths[TypeName("search", 1, 1)] \o <<"';">>,
             <<"import type { ">> \o TypeName("enum", 1, 1) \o <<" } from '">>
               \o render.filePaths[TypeName("enum", 1, 1)] \o <<"';">>,
             << >>>>

(***************************************************************************)
(* Properties of getPageContent (under SpecText).                          *)
(***************************************************************************)
\* the positions of the panel's lines that hold something other than spaces
NonBlankPositions(lines) ==
    {i \in DOMAIN lines : \E j \in DOMAIN lines[i] : lines[i][j] # " "}

\* the k-th such line
NonBlankLine(lines, k) ==
    lines[CHOOSE i \in NonBlankPositions(lines) :
            Cardinality({j \in NonBlankPositions(lines) : j <= i}) = k]

\* the dotted segments of an identifier from after its first `urn:` up to
\* its last `com`
UrnSegments(urn) ==
    LET from == CHOOSE i \in DOMAIN urn :
                    urn[i] = "urn:" /\ \A j \in 1..(i - 1) : urn[j] # "urn:"
        to == CHOOSE i \in DOMAIN urn :
                    urn[i] = "com" /\ \A j \in (i + 1)..Len(urn) : urn[j] # "com"
    IN Split(SubSeq(urn, from + 1, to), ".")

\* the segments before the last three, last first, joined with `/`
UrnFolder(segments) ==
    Join([i \in 1..(Len(segments) - 3) |-> segments[Len(segments) - 2 - i]],
         <<"/">>)

\* C22: the result of getPageContent holds the panel's non-blank lines in
\* page order, the first being the type name, except that the second (the
\* identifier) is replaced by the root folder followed by the identifier's
\* segments between `urn:` and the last `com`, reversed, without the first
\* three of the reversed order, joined with `/`; the identifier
\* urn:accounting_2014_1.lists.webservices.netsuite.com gives
\* <root>lists/accounting_2014_1
C22_PageContent ==
    render.pc = "content" =>
        /\ Len(render.content) = Cardinality(NonBlankPositions(render.lines))
        /\ \A k \in DOMAIN render.content :
              k # 2 => render.content[k] = NonBlankLine(render.lines, k)
        /\ render.content[2] =
              render.folder \o UrnFolder(UrnSegments(NonBlankLine(render.lines, 2)))
        /\ Occurs(<<"urn:", "accounting", "_", "2014_1", ".", "lists", ".",
                    "webservices", ".", "netsuite", ".", "com">>,
                  NonBlankLine(render.lines, 2))
             => render.content[2] =
                  render.folder \o <<"lists", "/", "accounting", "_", "2014_1">>

\* a panel that starts with a blank line and has one between its rows, with
\* an identifier of three segments before `webservices`
C22_Witness ==
    /\ render.pc = "content"
    /\ render.lines = <<<< >>, <<"Account">>,
                        <<"Namespace: ", "urn:", "types", ".", "common", "_", "2014_1",
                          ".", "platform", ".", "webservices", ".", "netsuite", ".",
                          "com">>,
                        <<"Value">>, <<" ", " ">>, <<"_", "a">>>>
    /\ render.content = <<<<"Account">>,
                          render.folder \o <<"platform", "/", "common", "_", "2014_1",
                                             "/", "types">>,
                          <<"Value">>, <<"_", "a">>>>

(***************************************************************************)
(* Properties of the passes over a version (under Spec).                   *)
(***************************************************************************)
VersionPasses == {"createFilePathObjectFile", "createFilesForVersion"}

\* the fixed order of the tabs
TabRank(tab) ==
    CASE tab = "enum" -> 1 [] tab = "other" -> 2 [] tab = "record" -> 3
      [] tab = "search" -> 4 [] OTHER -> 0

\* leaf a comes before leaf b: earlier namespace, or the same namespace and
\* an earlier tab, or the same tab and an earlier link
LeafBefore(a, b) ==
    \/ a.n < b.n
    \/ a.n = b.n /\ TabRank(a.tab) < TabRank(b.tab)
    \/ a.n = b.n /\ a.tab = b.tab /\ a.i < b.i

\* the state half of C23
C23_VisitedInOrder ==
    drv.name \in VersionPasses =>
        /\ \A k \in DOMAIN drv.visited :
              /\ drv.visited[k].kind = "leaf"
              /\ \E n \in DOMAIN drv.namespaceLinks,
                    tab \in {"enum", "other", "record", "search"} :
                    \E i \in DOMAIN LeftHandDrawerLinks(drv.namespaceLinks[n], tab) :
                       drv.visited[k] = LeftHandDrawerLinks(drv.namespaceLinks[n], tab)[i]
              /\ k > 1 => LeafBefore(drv.visited[k - 1], drv.visited[k])
        /\ drv.at \in {"write", "enum", "close", "return"} =>
              \A n \in DOMAIN drv.namespaceLinks,
                 tab \in {"enum", "other", "record", "search"} :
                 \A i \in DOMAIN LeftHandDrawerLinks(drv.namespaceLinks[n], tab) :
                    \E k \in DOMAIN drv.visited :
                       drv.visited[k] = LeftHandDrawerLinks(drv.namespaceLinks[n], tab)[i]
        /\ drv.name = "createFilesForVersion" =>
              drv.fileCount = Len(drv.visited) - Len(drv.failed)
                              - (IF drv.at = "page" THEN 1 ELSE 0)

\* the step half of C23: the rendering pass counts a file exactly when it
\* writes the declaration file of the page the browser shows
C23_OneWritePerPage ==
    (drv.name = "createFilesForVersion" /\ drv'.name = "createFilesForVersion"
     /\ drv.at # "enum") =>
        /\ drv'.fileCount \in {drv.fileCount, drv.fileCount + 1}
        /\ drv'.fileCount = drv.fileCount => tree' = tree /\ lastWrite' = lastWrite
        /\ drv'.fileCount = drv.fileCount + 1 =>
              /\ drv.at = "page"
              /\ drv'.failed = drv.failed
              /\ lastWrite'.step = "declaration"
              /\ \E f \in DOMAIN tree' :
                    /\ tree' = [g \in DOMAIN tree \cup {f} |->
                                   IF g = f THEN tree'[f] ELSE tree[g]]
                    /\ SubSeq(f, Len(f) - 3, Len(f)) =
                          TypeName(browser.page.tab, browser.page.n, browser.page.i)
                          \o <<".ts">>

C24_AsStated ==
    (proc = "running" /\ drv.name \in ScrapingDrivers /\ drv.at = "leftDrawerLinks") =>
        browser.page = IF drv.name = "createFilesForNamespace" THEN drv.link
                       ELSE drv.namespaceLinks[drv.n]

(***************************************************************************)
(* Properties of fixImportsForVersion (under Spec).                        *)
(***************************************************************************)
\* the file is an index.ts
IsIndexFile(f) == Len(f) >= 2 /\ SubSeq(f, Len(f) - 1, Len(f)) = <<"index", ".ts">>

\* a line that holds no import statement
IsNonImportLine(line) == \A i \in DOMAIN line : line[i] # "import type { "

\* C25: while fixImportsForVersion runs, no file is created or deleted; a
\* file is written only in the step that has read it and found a
\* project-root import in its content; the content of an index.ts and of a
\* file without such an import never changes, and in a file that changes
\* the number of lines and every line without an import stay as they were
C25_FixImportsFrame ==
    [][(proc = "running" /\ drv.name = "fixImportsForVersion") =>
          /\ DOMAIN tree' = DOMAIN tree
          /\ \A f \in DOMAIN tree :
                tree'[f] # tree[f] =>
                   /\ DoesFileContentIncludeFullImports(tree[f])
                   /\ ~IsIndexFile(f)
                   /\ drv.todo # << >> /\ Head(drv.todo) = [file |-> TRUE, path |-> f,
                                                           level |-> Head(drv.todo).level]
                   /\ Len(Split(tree'[f], "\n")) = Len(Split(tree[f], "\n"))
                   /\ \A i \in DOMAIN Split(tree[f], "\n") :
                         IsNonImportLine(Split(tree[f], "\n")[i])
                            => Split(tree'[f], "\n")[i] = Split(tree[f], "\n")[i]
          /\ lastWrite' # lastWrite =>
                /\ lastWrite' = [step |-> "imports", existed |-> TRUE,
                                 skipped |-> FALSE, changed |-> lastWrite'.changed]
                /\ drv.todo # << >> /\ Head(drv.todo).file
                /\ Head(drv.todo).path \in DOMAIN tree
                /\ DoesFileContentIncludeFullImports(tree[Head(drv.todo).path])
                /\ ~IsIndexFile(Head(drv.todo).path)]_vars

\* the walk has ended over a tree with index files and with files that have
\* no project-root import, and its last write changed a file
C25_Witness ==
    /\ drv.name = "fixImportsForVersion"
    /\ drv.at = "return"
    /\ lastWrite.step = "imports"
    /\ lastWrite.changed
    /\ \E f \in DOMAIN tree : IsIndexFile(f)
    /\ \E f \in DOMAIN tree :
          ~IsIndexFile(f) /\ \A i \in DOMAIN tree[f] : tree[f][i] # "import type { "
    /\ \A f \in DOMAIN tree : ~DoesFileContentIncludeFullImports(tree[f])

(***************************************************************************)
(* Properties of parseFolderContents (under SpecText).                     *)
(***************************************************************************)
\* the name ends with the suffix `.ts`
EndsWithDotTs(name) == name # << >> /\ name[Len(name)] = ".ts"

\* C26 as stated: the folders are the entries whose names hold no `.`, the
\* files are the entries whose names end with `.ts` other than index.ts
\* (listed without the suffix), and an entry of any other extension, such as
\* A.tsx or A.ts.bak, is in neither list
C26_AsStated ==
    render.pc = "parsed" =>
        /\ render.parsed.folders =
              SelectSeq(render.contents,
                        LAMBDA name : \A i \in DOMAIN name : name[i] \notin DotAtoms)
        /\ render.parsed.files =
              [i \in DOMAIN SelectSeq(render.contents,
                                      LAMBDA name : EndsWithDotTs(name)
                                                    /\ name # <<"index", ".ts">>) |->
                 SubSeq(SelectSeq(render.contents,
                                  LAMBDA name : EndsWithDotTs(name)
                                                /\ name # <<"index", ".ts">>)[i], 1,
                        Len(SelectSeq(render.contents,
                                      LAMBDA name : EndsWithDotTs(name)
                                                    /\ name # <<"index", ".ts">>)[i]) - 1)]

(***************************************************************************)
(* Properties of the drivers' error paths (under Spec).                    *)
(***************************************************************************)
\* C27: when an error has left a scraping driver that had launched the
\* browser, the browser is still open and the driver has not called close;
\* a driver that launched the browser has closed it only when it stands at
\* its return, after its last statement
C27_BrowserLeftOpenOnError ==
    (drv.name \in ScrapingDrivers /\ drv.launches = 1) =>
        /\ proc \in {"rejected", "exited"} => browser.open /\ drv.closes = 0
        /\ (~browser.open \/ drv.closes > 0) => drv.at = "return" /\ proc = "running"

\* the write of the consolidated FilePath enum threw after every page of
\* the version was handled
C27_Witness ==
    /\ proc = "exited"
    /\ drv.name = "createFilesForVersion"
    /\ drv.at = "enum"
    /\ drv.launches = 1
    /\ drv.closes = 0
    /\ browser.open

(***************************************************************************)
(* Properties of the file-path table against the written tree (under Spec).*)
(***************************************************************************)
\* the type name of the leaf page the browser shows
ShownTypeName == TypeName(browser.page.tab, browser.page.n, browser.page.i)

\* `<folder>/<Name>` for the enum tab and `<folder>/<Tab>/<Name>` for the
\* other tabs, <folder> being src/<version>/<top>/<sub>_<version>
ExpectedProjectPath(url) ==
    <<"src", "/", url.v, "/", TopNames[url.n], "/", SubNames[url.n], "_", url.v>>
    \o (CASE url.tab = "enum" -> << >>
          [] url.tab = "other" -> <<"/", "Other">>
          [] url.tab = "record" -> <<"/", "Record">>
          [] url.tab = "search" -> <<"/", "Search">>)
    \o <<"/">> \o TypeName(url.tab, url.n, url.i)

\* C28: when the rendering pass writes the file of a leaf page whose type
\* name the version's table holds, the file written is the table's path for
\* that name, below the project folder and with `.ts` appended, and that
\* path is <folder>/<Name> for an enum page and <folder>/<Tab>/<Name> with
\* the capitalized tab for a page of the other tabs
C28_TablePathIsWriteLocation ==
    [][(/\ drv.name = "createFilesForVersion" /\ drv.at = "page"
        /\ drv'.fileCount = drv.fileCount + 1
        /\ ShownTypeName \in DOMAIN drv.filePaths) =>
          /\ drv.filePaths[ShownTypeName] = ExpectedProjectPath(browser.page)
          /\ \E f \in DOMAIN tree' :
                /\ f = <<"netsuite-schema-browser-types", "/">>
                       \o drv.filePaths[ShownTypeName] \o <<".ts">>
                /\ \A g \in DOMAIN tree' \ {f} : g \in DOMAIN tree /\ tree'[g] = tree[g]
                /\ tree'[f] # << >>
                /\ Occurs(ShownTypeName, tree'[f])]_vars

\* the rendering pass has written the file of the first record page where
\* the table says it is
C28_Witness ==
    /\ drv.name = "createFilesForVersion"
    /\ drv.at = "gotoLeaf"
    /\ browser.page = LeafUrl(drv.version, 1, "record", 1)
    /\ drv.failed = << >>
    /\ lastWrite.step = "declaration"
    /\ TypeName("record", 1, 1) \in DOMAIN drv.filePaths
    /\ <<"netsuite-schema-browser-types", "/", "src", "/", drv.version, "/", "lists",
         "/", "accounting", "_", drv.version, "/", "Record", "/", "Record", "1", "1",
         ".ts">> \in DOMAIN tree

\* the state half of C29: where a navigation to a leaf page threw, the page
\* is in neither list of the driver, and a table pass that is main's first
\* call has written nothing
C29_LeafNotHandled ==
    (proc \in {"rejected", "exited"} /\ drv.name \in ScrapingDrivers
     /\ drv.at = "gotoLeaf") =>
        /\ \A k \in DOMAIN drv.failed : drv.failed[k] # drv.leftDrawerLinks[drv.l]
        /\ \A k \in DOMAIN drv.visited : drv.visited[k] # drv.leftDrawerLinks[drv.l]
        /\ browser.page # drv.leftDrawerLinks[drv.l]
        /\ (drv.name = "createFilePathObjectFile" /\ Len(calls) = 1) =>
              /\ lastWrite = NoWrite
              /\ tableFile[drv.version] \in {ABSENT, GeneratedTableFile(drv.version)}

\* the step half of C29: the step taken at page.goto(leftDrawerLink) either
\* shows the page, or rejects the driver where it stands; after the
\* rejection the driver does not move and no file changes
C29_GotoLeafStep ==
    /\ (proc = "running" /\ drv.name \in ScrapingDrivers /\ drv.at = "gotoLeaf") =>
          \/ /\ proc' = "running"
             /\ browser'.page = drv.leftDrawerLinks[drv.l]
             /\ drv' = [drv EXCEPT !.visited = Append(drv.visited,
                                                      drv.leftDrawerLinks[drv.l]),
                                   !.at = "page"]
          \/ /\ proc' = "rejected"
             /\ drv' = drv
             /\ UNCHANGED <<browser, tableFile, tree, lastWrite, pageFailures>>
    /\ (proc \in {"rejected", "exited"} /\ drv.name \in ScrapingDrivers
        /\ drv.at = "gotoLeaf") =>
          /\ proc' = "exited"
          /\ UNCHANGED <<drv, main, calls, browser, tableFile, tree, lastWrite>>

\* C29: page.goto(leftDrawerLink) is outside the try block: when it throws,
\* the page is not logged and skipped as a failed page; the driver is
\* rejected at that statement, visits no further leaf page, and a table
\* pass does not write the file-path table
C29_GotoLeafIsFatal ==
    []C29_LeafNotHandled /\ [][C29_GotoLeafStep]_vars

\* the table pass, main's first call, was rejected at the navigation to its
\* second leaf page; no table file exists
C29_Witness ==
    /\ proc = "exited"
    /\ drv.name = "createFilePathObjectFile"
    /\ drv.at = "gotoLeaf"
    /\ Len(calls) = 1
    /\ Len(drv.visited) = 1
    /\ drv.failed = << >>
    /\ tableFile[drv.version] = ABSENT

=============================================================================
